---- MODULE Spec2Model ----
(***************************************************************************)
(* Trip monitoring and event-detection engine of the telematics app:       *)
(* the location callback, the accelerometer callback, the trip start/end   *)
(* handlers (App component) and the cached speed-limit resolver            *)
(* (speedLimitService.js).                                                 *)
(*                                                                         *)
(* Units.  Times are integer milliseconds.  Coordinates are integers in    *)
(* units of 1e-5 degree.  Speeds are integers in tenths of a km/h.         *)
(* Accelerations are integers in tenths of a m/s^2.  Distances are integer *)
(* centimetres.  Durations of speeding are kept in milliseconds.           *)
(***************************************************************************)
EXTENDS Integers, Sequences, FiniteSets, TLC

\* ---------------------------------------------------------------- bounds
\* Location fixes delivered in one run.
MaxFixes == 3
\* Trips the backend creates in one run.
MaxTrips == 2
\* createTrip requests in flight at once.
MaxPendingStarts == 2
\* Trip-end submissions issued for one trip.
MaxEndsPerTrip == 2
\* Resolver lookups in flight at once (trip session).
MaxPendingLimits == 2
\* Wall clock at construction, and the last instant a run reaches.
StartClock == 20000
MaxClock == 30000
\* Fixes and last instant of the runs of the detector specifications.
MaxCrashFixes == 5
MaxCooldownFixes == 4
MaxFusionFixes == 3
MaxCrashClock == 21000
MaxCooldownClock == 23000
MaxFusionClock == 21000
\* Lookups started in one run of the cache specification.
MaxLookups == 3
MaxCacheClock == 270000
\* Lookups started in one run on the full cache, and its last instant.
MaxEvictLookups == 2
MaxEvictClock == 140000
\* Lookups started in one run of the resolver specification.
MaxResolverLookups == 1
\* Fixes and last instant of the runs of the speeding specifications.
MaxSpeedingFixes == 3
MaxSpeedingClock == 40000
MaxEpisodeFixes == 12
MaxEpisodeClock == 31000
\* Fixes, calls of the end handler and last instant of the runs of the
\* session specification.
MaxSessionFixes == 3
MaxEndCalls == 2
MaxSessionClock == 21000
\* Fixes and last instant of the runs of the trip summary specification.
MaxSummaryFixes == 4
MaxSummaryClock == 24000
\* Fixes and last instant of the runs of the malformed-sample specification.
MaxMalformedFixes == 3
MaxMalformedClock == 24000
\* Fixes and last instant of the runs of the stationary-vehicle specification.
MaxStationaryFixes == 3
MaxStationaryClock == 27000
\* Fixes and last instant of the runs of the track specification.
MaxTrackFixes == 3
MaxTrackClock == 24000
\* Fixes and last instant of the runs of the GPS quality specification.
MaxGpsFixes == 3
MaxGpsClock == 25000
\* Fixes and last instant of the runs of the impact flag specification.
MaxImpactFixes == 3
MaxImpactClock == 20400
\* Fixes and last instant of the runs of the failed-end specification.
MaxFailedEndFixes == 3
MaxFailedEndClock == 30000
\* Lookups started in one run of the refresh specification, and its last
\* instant.
MaxRefreshLookups == 3
MaxRefreshClock == 140000
\* Fixes and last instant of the runs of the stream specification.
MaxStreamFixes == 4
MaxStreamClock == 23000
\* Most harsh brakes and harsh accelerations of a scored trip.
MaxScoreBrakes == 2
MaxScoreAccels == 1

\* ------------------------------------------------------- program constants
Null == -1000
\* A JavaScript value that is no number (a function, an object, NaN).
NotANumber == -2000
\* The JavaScript numbers Infinity and -Infinity.
Infinity == -3000
InitialMagnitude == 98
SensorFlagThreshold == 130
HighImpactThreshold == 390
CrashFlagResetMs == 200
SpeedCalcMinDeltaMs == 1500
SpeedCalcMinDistCm == 1500
SpeedCalcMaxAccuracy == 35
SpeedCalcUnknownAccuracy == 500
DefaultAccuracy == 999
MinMoveCm == 500
AutoStartWindowMs == 30000
AutoStartRecentMs == 12000
AutoStartMinSamples == 3
AutoStartMinAvg == 150
HarshGateMinMs == 500
HarshGateMaxMs == 5000
HarshPercent == 30
HarshCooldownMs == 3000
CrashPrevSpeedMin == 200
CrashSpeedMax == 50
CrashMaxDeltaMs == 2000
GpsGoodAccuracy == 20
GpsModerateAccuracy == 30
GpsModerateMaxMs == 3000
SpeedCheckIntervalMs == 10000
SpeedingTolerance == 5
\* The interval of the location updates the app requests.
SampleIntervalMs == 1000
\* The safety score of the backend, in units of 1/300 point: the start
\* value, the penalty of each event, and the three capped penalties (per
\* tenth of a km/h of average speed above 90 km/h, per second of speeding,
\* per tenth of a km/h of excess speed).
ScoreStart == 30000
HarshBrakePenalty == 1500
HarshAccelPenalty == 1200
CrashPenalty == 15000
AverageSpeedFree == 900
AverageSpeedPenalty == 15
AverageSpeedCap == 6000
SpeedingSecondPenalty == 10
SpeedingDurationCap == 6000
ExcessSpeedPenalty == 6
ExcessSpeedCap == 3000
\* The display speed: weight of a new sample in the moving average (percent)
\* and the raw speed below which the average is reset.
SmoothingPercent == 35
SmoothingResetSpeed == 20
CACHE_DURATION_MS == 120000
CacheMaxEntries == 100
LegalDefault == 60
OsmMaxDifference == 20
\* Centimetres per 1e-5 degree of latitude (R = 6371 km), and of longitude
\* at the latitude of the simulated drive (33.89 N).
CmPerLatUnit == 111
CmPerLngUnit == 92

\* ------------------------------------------------------------- input sets
\* Coordinates (lat, lng) in 1e-5 degree relative to the start of the
\* simulated drive: the origin, and a point 45.75 m away from it.
PointA == [lat |-> 0, lng |-> 0]
PointB == [lat |-> 40, lng |-> 12]

\* Accelerometer samples (x, y, z): rest (9.8), a harsh manoeuvre (15.0)
\* and an impact (40.0 m/s^2).
AccelSamples == { <<0, 0, 98>>, <<90, 120, 0>>, <<0, 240, 320>> }

\* Speed limits the resolver can return (km/h).
Limits == {25, 60}

VARIABLES
    \* React state
    status, isStartingTrip, error, safetyScore,
    \* refs of the App component
    tripId, lastLocation, speedSum, speedCount, tripLocationBuffer,
    smoothedSpeed,
    lastHarshBrakeTime, lastHarshAccelTime, harshBrakeCount, harshAccelCount,
    harshEvents, accelerometerMagnitude,
    crashDetected, crashLat, crashLng, speedBasedCrash, sensorBasedCrash,
    speedingDuration, speedingViolations, maxSpeedOverLimit,
    lastSpeedCheckTime, currentSpeedLimit, wasSpeeding, speedingStartTime,
    recentSpeedSamples, autoStartInProgress,
    \* the pending setTimeout of the accelerometer effect (its deadline)
    crashTimeout,
    \* environment: wall clock, the last position delivered, requests in flight
    now, position, fixCount,
    createTripPending, foregroundPending, tripsCreated,
    endTripPending, endTripIssued, endTripBodies, endCalls, limitPending,
    \* speedLimitService.js: the module-level cache and its callers
    speedLimitCache, lookupPending, lookupLog, resolved

reactVars == <<status, isStartingTrip, error, safetyScore>>
motionVars == <<lastLocation, speedSum, speedCount, tripLocationBuffer,
                smoothedSpeed>>
harshVars == <<lastHarshBrakeTime, lastHarshAccelTime, harshBrakeCount,
               harshAccelCount, harshEvents>>
crashVars == <<crashDetected, crashLat, crashLng, speedBasedCrash>>
sensorVars == <<accelerometerMagnitude, sensorBasedCrash, crashTimeout>>
speedingVars == <<speedingDuration, speedingViolations, maxSpeedOverLimit,
                  currentSpeedLimit, wasSpeeding, speedingStartTime>>
autoVars == <<recentSpeedSamples, autoStartInProgress>>
startEnv == <<createTripPending, foregroundPending, tripsCreated>>
endEnv == <<endTripPending, endTripIssued, endTripBodies, endCalls>>
cacheVars == <<speedLimitCache, lookupPending, lookupLog, resolved>>

vars == <<reactVars, tripId, motionVars, harshVars, crashVars, sensorVars,
          speedingVars, lastSpeedCheckTime, autoVars, now, position, fixCount,
          startEnv, endEnv, limitPending, cacheVars>>

\* ----------------------------------------------------------------- helpers
NoTrip == 0
TripIds == 1..MaxTrips

\* error is null or a message; safetyScore is null (<<>>) or <<score>>.
NoError == "null"
NoScore == <<>>

NoLocation == [lat |-> Null, lng |-> Null, time |-> Null]
NoPosition == [latitude |-> Null, longitude |-> Null, timestamp |-> Null,
               accuracy |-> Null, speed |-> Null]

Abs(x) == IF x < 0 THEN -x ELSE x

RECURSIVE SqrtSearch(_, _, _)
SqrtSearch(n, lo, hi) ==
    IF lo >= hi THEN lo
    ELSE LET mid == (lo + hi + 1) \div 2
         IN  IF mid * mid <= n THEN SqrtSearch(n, mid, hi)
                               ELSE SqrtSearch(n, lo, mid - 1)

\* Math.sqrt on the integers of the model (floor of the square root).
Sqrt(n) == SqrtSearch(n, 0, 46340)

\* A finite number.
IsFinite(x) == x # Null /\ x # NotANumber /\ x # Infinity

\* x >= y, which is false when x is NaN.
AtLeast(x, y) == x # NotANumber /\ x >= y

\* Haversine distance, in centimetres.  For the displacements of the model
\* (tens of metres) the great-circle distance on a sphere of radius 6371 km
\* is the planar distance with the longitude scaled by cos(latitude).  With
\* an infinite coordinate the sines of the formula are NaN, and so is the
\* distance.
distanceKm(lat1, lng1, lat2, lng2) ==
    LET dLat == (lat2 - lat1) * CmPerLatUnit
        dLng == (lng2 - lng1) * CmPerLngUnit
    IN  IF IsFinite(lat1) /\ IsFinite(lng1) /\ IsFinite(lat2) /\ IsFinite(lng2)
        THEN Sqrt(dLat * dLat + dLng * dLng)
        ELSE NotANumber

RECURSIVE SumSpeeds(_)
SumSpeeds(s) == IF s = <<>> THEN 0 ELSE Head(s).speedKmh + SumSpeeds(Tail(s))

FilterRecent(s, t, windowMs) == SelectSeq(s, LAMBDA e : t - e.time <= windowMs)


\* ------------------------------------------------- location callback: speed
\* coords.speed (m/s) converted to km/h when present and non-negative.
coordsSpeedKmh(fix) ==
    IF fix.speed # Null /\ fix.speed >= 0 THEN fix.speed * 36 ELSE Null

\* Variant: the speed is computed whatever the elapsed time.
RawSpeedAnyDelta(prev, fix) ==
    LET time == fix.timestamp
        timeDeltaMs == IF prev # NoLocation THEN time - prev.time ELSE 0
        accuracy == IF fix.accuracy = Null THEN DefaultAccuracy ELSE fix.accuracy
        accuracyOk == accuracy <= SpeedCalcMaxAccuracy
                      \/ accuracy > SpeedCalcUnknownAccuracy
    IN  IF coordsSpeedKmh(fix) # Null THEN coordsSpeedKmh(fix)
        ELSE IF prev # NoLocation
        THEN LET distCm == distanceKm(prev.lat, prev.lng,
                                      fix.latitude, fix.longitude)
             IN  IF timeDeltaMs > 0 /\ AtLeast(distCm, SpeedCalcMinDistCm)
                    /\ accuracyOk
                 THEN (distCm * 360) \div timeDeltaMs
                 ELSE 0
        ELSE 0

\* Variant: the computed speed is used whatever the accuracy.
RawSpeedAnyAccuracy(prev, fix) ==
    LET time == fix.timestamp
        timeDeltaMs == IF prev # NoLocation THEN time - prev.time ELSE 0
    IN  IF coordsSpeedKmh(fix) # Null THEN coordsSpeedKmh(fix)
        ELSE IF prev # NoLocation /\ timeDeltaMs >= SpeedCalcMinDeltaMs
        THEN LET distCm == distanceKm(prev.lat, prev.lng,
                                      fix.latitude, fix.longitude)
             IN  IF timeDeltaMs > 0 /\ AtLeast(distCm, SpeedCalcMinDistCm)
                 THEN (distCm * 360) \div timeDeltaMs
                 ELSE 0
        ELSE 0

\* Raw speed of a fix against the last accepted position prev.
RawSpeed(prev, fix) ==
    LET time == fix.timestamp
        timeDeltaMs == IF prev # NoLocation THEN time - prev.time ELSE 0
        accuracy == IF fix.accuracy = Null THEN DefaultAccuracy ELSE fix.accuracy
        accuracyOk == accuracy <= SpeedCalcMaxAccuracy
                      \/ accuracy > SpeedCalcUnknownAccuracy
    IN  IF coordsSpeedKmh(fix) # Null THEN coordsSpeedKmh(fix)
        ELSE IF prev # NoLocation /\ timeDeltaMs >= SpeedCalcMinDeltaMs
        THEN LET distCm == distanceKm(prev.lat, prev.lng,
                                      fix.latitude, fix.longitude)
             IN  IF timeDeltaMs > 0 /\ AtLeast(distCm, SpeedCalcMinDistCm)
                    /\ accuracyOk
                 THEN (distCm * 360) \div timeDeltaMs
                 ELSE 0
        ELSE 0

\* Variant: every fix counts as moved.
MovedAlways(prev, fix) == TRUE

\* moved: no previous position, or at least 5 m away from it.
Moved(prev, fix) ==
    \/ prev = NoLocation
    \/ AtLeast(distanceKm(prev.lat, prev.lng, fix.latitude, fix.longitude),
               MinMoveCm)

\* --------------------------------------------- location callback: detection
isGpsGood(fix, timeSinceLastUpdate) ==
    LET accuracy == IF fix.accuracy = Null \/ fix.accuracy = 0
                    THEN DefaultAccuracy ELSE fix.accuracy
    IN  \/ accuracy <= GpsGoodAccuracy
        \/ accuracy <= GpsModerateAccuracy /\ timeSinceLastUpdate <= GpsModerateMaxMs

sensorFlagged(accelMagnitude) == accelMagnitude > SensorFlagThreshold

speedFlaggedBrake(prevSpeed, rawSpeed) ==
    prevSpeed > 0 /\ (prevSpeed - rawSpeed) * 100 >= HarshPercent * prevSpeed

speedFlaggedAccel(prevSpeed, rawSpeed) ==
    prevSpeed > 0 /\ (rawSpeed - prevSpeed) * 100 >= HarshPercent * prevSpeed

\* Variant: with spotty GPS and no clear speed trend both kinds count.
HarshDecisionBothKinds(gpsGood, sensor, prevSpeed, rawSpeed) ==
    LET brake == speedFlaggedBrake(prevSpeed, rawSpeed)
        accel == speedFlaggedAccel(prevSpeed, rawSpeed)
    IN  IF gpsGood
        THEN [countBrake |-> brake /\ sensor, countAccel |-> accel /\ sensor]
        ELSE IF sensor
        THEN IF brake THEN [countBrake |-> TRUE, countAccel |-> FALSE]
             ELSE IF accel THEN [countBrake |-> FALSE, countAccel |-> TRUE]
             ELSE [countBrake |-> TRUE, countAccel |-> TRUE]
        ELSE [countBrake |-> FALSE, countAccel |-> FALSE]

\* Variant: with good GPS the speed-based flag alone counts.
HarshDecisionSpeedOnly(gpsGood, sensor, prevSpeed, rawSpeed) ==
    LET brake == speedFlaggedBrake(prevSpeed, rawSpeed)
        accel == speedFlaggedAccel(prevSpeed, rawSpeed)
    IN  IF gpsGood
        THEN [countBrake |-> brake, countAccel |-> accel]
        ELSE IF sensor
        THEN IF brake THEN [countBrake |-> TRUE, countAccel |-> FALSE]
             ELSE IF accel THEN [countBrake |-> FALSE, countAccel |-> TRUE]
             ELSE [countBrake |-> TRUE, countAccel |-> FALSE]
        ELSE [countBrake |-> FALSE, countAccel |-> FALSE]

\* Variant: with spotty GPS an inconclusive speed trend counts nothing.
HarshDecisionNoDefault(gpsGood, sensor, prevSpeed, rawSpeed) ==
    LET brake == speedFlaggedBrake(prevSpeed, rawSpeed)
        accel == speedFlaggedAccel(prevSpeed, rawSpeed)
    IN  IF gpsGood
        THEN [countBrake |-> brake /\ sensor, countAccel |-> accel /\ sensor]
        ELSE [countBrake |-> sensor /\ brake, countAccel |-> sensor /\ accel]

\* The decision logic: which kinds the sample counts, before the cooldown.
HarshDecision(gpsGood, sensor, prevSpeed, rawSpeed) ==
    LET brake == speedFlaggedBrake(prevSpeed, rawSpeed)
        accel == speedFlaggedAccel(prevSpeed, rawSpeed)
    IN  IF gpsGood
        THEN [countBrake |-> brake /\ sensor, countAccel |-> accel /\ sensor]
        ELSE IF sensor
        THEN IF brake THEN [countBrake |-> TRUE, countAccel |-> FALSE]
             ELSE IF accel THEN [countBrake |-> FALSE, countAccel |-> TRUE]
             ELSE [countBrake |-> TRUE, countAccel |-> FALSE]
        ELSE [countBrake |-> FALSE, countAccel |-> FALSE]

\* Variant: the cooldown compared in seconds.
CooldownElapsedSeconds(t, lastHarshTime) == t - lastHarshTime >= 3

CooldownElapsed(t, lastHarshTime) == t - lastHarshTime >= HarshCooldownMs

\* Variant: a stop counts whatever the speed before it.
SuddenStopFromAnySpeed(prevSpeed, rawSpeed, timeDeltaMs) ==
    rawSpeed < CrashSpeedMax /\ timeDeltaMs < CrashMaxDeltaMs

SuddenStop(prevSpeed, rawSpeed, timeDeltaMs) ==
    prevSpeed >= CrashPrevSpeedMin /\ rawSpeed < CrashSpeedMax
    /\ timeDeltaMs < CrashMaxDeltaMs

\* Variant: a recorded crash does not stop a further detection.
CrashConfirmedAgain(speedBased, sensorBased, detected) ==
    speedBased /\ sensorBased

CrashConfirmed(speedBased, sensorBased, detected) ==
    speedBased /\ sensorBased /\ ~detected

\* Variant: the crash is located at the last accepted position.
CrashLocationLastAccepted(prev, fix) == [lat |-> prev.lat, lng |-> prev.lng]

CrashLocation(prev, fix) == [lat |-> fix.latitude, lng |-> fix.longitude]

HarshEvent(kind, t, fix, rawSpeed) ==
    [type |-> kind, timestamp |-> t, latitude |-> fix.latitude,
     longitude |-> fix.longitude, speed |-> rawSpeed]

\* ------------------------------------------------------- handleStartTrip
\* Variant: the request is issued without an accepted position.
StartIssuesRequestNoFix(seenIsStartingTrip, pos) == ~seenIsStartingTrip

\* The synchronous part of handleStartTrip up to the createTrip request:
\* whether the request is issued, given the isStartingTrip value the
\* closure sees and the last accepted position.
StartIssuesRequest(seenIsStartingTrip, pos) ==
    ~seenIsStartingTrip /\ pos # NoLocation

\* The isStartingTrip the location callback's handleStartTrip reads: the
\* callback is created once by the geolocation effect, so it calls the
\* handleStartTrip of that render, whose isStartingTrip is the initial FALSE.
CapturedIsStartingTrip == FALSE


\* ------------------------------------------------------ the display speed
\* smoothedSpeedRef is kept in units of 1e-4 km/h.
SmoothedPerTenth == 1000

\* The exponential moving average of the raw speed, reset to the raw speed
\* when that is below 2 km/h.
Smooth(smoothed, rawSpeed) ==
    IF rawSpeed < SmoothingResetSpeed THEN rawSpeed * SmoothedPerTenth
    ELSE (smoothed * (100 - SmoothingPercent)
          + rawSpeed * SmoothedPerTenth * SmoothingPercent) \div 100

\* Math.round(smoothed * 10) / 10, in tenths of a km/h.
DisplaySpeed(smoothed) == (2 * smoothed + SmoothedPerTenth) \div (2 * SmoothedPerTenth)

\* The speedKmh state: every accepted sample sets it to the display speed.
speedKmh == DisplaySpeed(smoothedSpeed)

\* ------------------------------------------------------------------- Init
InitWith(cache) ==
    /\ status = "idle" /\ isStartingTrip = FALSE
    /\ error = NoError /\ safetyScore = NoScore
    /\ tripId = NoTrip
    /\ lastLocation = NoLocation
    /\ smoothedSpeed = 0
    /\ speedSum = 0 /\ speedCount = 0
    /\ tripLocationBuffer = <<>>
    /\ lastHarshBrakeTime = 0 /\ lastHarshAccelTime = 0
    /\ harshBrakeCount = 0 /\ harshAccelCount = 0
    /\ harshEvents = <<>>
    /\ accelerometerMagnitude = InitialMagnitude
    /\ crashDetected = FALSE /\ crashLat = Null /\ crashLng = Null
    /\ speedBasedCrash = FALSE /\ sensorBasedCrash = FALSE
    /\ speedingDuration = 0 /\ speedingViolations = 0 /\ maxSpeedOverLimit = 0
    /\ lastSpeedCheckTime = 0 /\ currentSpeedLimit = Null
    /\ wasSpeeding = FALSE /\ speedingStartTime = Null
    /\ recentSpeedSamples = <<>> /\ autoStartInProgress = FALSE
    /\ crashTimeout = Null
    /\ now = StartClock /\ position = NoPosition /\ fixCount = 0
    /\ createTripPending = 0 /\ foregroundPending = 0 /\ tripsCreated = 0
    /\ endTripPending = [t \in TripIds |-> 0]
    /\ endTripIssued = [t \in TripIds |-> 0]
    /\ endTripBodies = [t \in TripIds |-> <<>>]
    /\ endCalls = 0
    /\ limitPending = {}
    /\ speedLimitCache = cache /\ lookupPending = {} /\ lookupLog = <<>>
    /\ resolved = <<>>

\* The state after construction: the module-level cache is empty.
Init == InitWith(<<>>)

\* Variant: the gate opens on every sample.
CheckDueAlways(time, lastCheckTime) == time - lastCheckTime >= 0

\* The cadence gate of the speed limit check.
CheckDue(time, lastCheckTime) == time - lastCheckTime >= SpeedCheckIntervalMs

\* ------------------------------------------------- the location callback
\* Number(coords.latitude), or NaN when the coordinate is missing.
Coordinate(v) == IF v = Null THEN NotANumber ELSE v

\* The coordinate validation: Number.isNaN(lat) || Number.isNaN(lng).
DropsSample(fix) ==
    \/ Coordinate(fix.latitude) = NotANumber
    \/ Coordinate(fix.longitude) = NotANumber

\* The callback past the coordinate validation.
AcceptSample(fix) ==
    LET time == fix.timestamp
        prev == lastLocation
        rawSpeed == RawSpeed(prev, fix)
        active == tripId # NoTrip
        count1 == IF active THEN speedCount + 1 ELSE speedCount
        buffer == tripLocationBuffer
        prevSpeed == IF Len(buffer) > 0 THEN buffer[Len(buffer)].speed ELSE 0
        location1 == IF Moved(prev, fix) \/ lastLocation = NoLocation
                     THEN [lat |-> fix.latitude, lng |-> fix.longitude,
                           time |-> time]
                     ELSE lastLocation
        \* auto-detect car ride
        autoConsidered == tripId = NoTrip /\ ~autoStartInProgress
        recent1 == IF autoConsidered
                   THEN FilterRecent(Append(recentSpeedSamples,
                                            [speedKmh |-> rawSpeed, time |-> time]),
                                     time, AutoStartWindowMs)
                   ELSE recentSpeedSamples
        last10 == FilterRecent(recent1, time, AutoStartRecentMs)
        autoStart == /\ autoConsidered
                     /\ Len(last10) >= AutoStartMinSamples
                     /\ SumSpeeds(last10) >= AutoStartMinAvg * Len(last10)
        startIssued == autoStart
                       /\ StartIssuesRequest(CapturedIsStartingTrip, location1)
        \* harsh braking / acceleration
        detect == active /\ prev # NoLocation /\ count1 >= 2
        timeDeltaMs == time - prev.time
        inGate == detect /\ timeDeltaMs >= HarshGateMinMs
                         /\ timeDeltaMs <= HarshGateMaxMs
        decision == HarshDecision(isGpsGood(fix, timeDeltaMs),
                                  sensorFlagged(accelerometerMagnitude),
                                  prevSpeed, rawSpeed)
        brake == inGate /\ decision.countBrake
                 /\ CooldownElapsed(time, lastHarshBrakeTime)
        accel == inGate /\ decision.countAccel
                 /\ CooldownElapsed(time, lastHarshAccelTime)
        events1 == IF brake
                   THEN Append(harshEvents, HarshEvent("braking", time, fix, rawSpeed))
                   ELSE harshEvents
        events2 == IF accel
                   THEN Append(events1, HarshEvent("acceleration", time, fix, rawSpeed))
                   ELSE events1
        \* crash detection
        speedCrash1 == speedBasedCrash
                       \/ (detect /\ SuddenStop(prevSpeed, rawSpeed, timeDeltaMs))
        crashNow == active
                    /\ CrashConfirmed(speedCrash1, sensorBasedCrash, crashDetected)
        \* speed limit checking
        check == active /\ CheckDue(time, lastSpeedCheckTime)
    IN  /\ position' = fix
        /\ error' = NoError
        /\ smoothedSpeed' = Smooth(smoothedSpeed, rawSpeed)
        /\ speedSum' = IF active THEN speedSum + rawSpeed ELSE speedSum
        /\ speedCount' = count1
        /\ lastLocation' = location1
        /\ recentSpeedSamples' = recent1
        /\ autoStartInProgress' = (autoStartInProgress \/ autoStart)
        /\ isStartingTrip' = (isStartingTrip \/ startIssued)
        /\ createTripPending' = IF startIssued THEN createTripPending + 1
                                               ELSE createTripPending
        /\ tripLocationBuffer' =
              IF active
              THEN Append(buffer, [lat |-> fix.latitude, lng |-> fix.longitude,
                                   time |-> time, speed |-> rawSpeed])
              ELSE buffer
        /\ harshBrakeCount' = IF brake THEN harshBrakeCount + 1 ELSE harshBrakeCount
        /\ harshAccelCount' = IF accel THEN harshAccelCount + 1 ELSE harshAccelCount
        /\ lastHarshBrakeTime' = IF brake THEN time ELSE lastHarshBrakeTime
        /\ lastHarshAccelTime' = IF accel THEN time ELSE lastHarshAccelTime
        /\ harshEvents' = events2
        /\ crashDetected' = (crashDetected \/ crashNow)
        /\ crashLat' = IF crashNow THEN CrashLocation(prev, fix).lat ELSE crashLat
        /\ crashLng' = IF crashNow THEN CrashLocation(prev, fix).lng ELSE crashLng
        /\ speedBasedCrash' = IF crashNow THEN FALSE
                              ELSE IF active THEN speedCrash1 ELSE speedBasedCrash
        /\ sensorBasedCrash' = IF crashNow THEN FALSE ELSE sensorBasedCrash
        /\ lastSpeedCheckTime' = IF check THEN time ELSE lastSpeedCheckTime
        /\ limitPending' =
              IF check
              THEN limitPending \cup
                     {[trip |-> tripId, rawSpeed |-> rawSpeed, time |-> time,
                       lat |-> fix.latitude, lng |-> fix.longitude]}
              ELSE limitPending
        /\ UNCHANGED <<status, safetyScore, tripId, accelerometerMagnitude,
                       crashTimeout, speedingVars, now, foregroundPending,
                       tripsCreated, endEnv, cacheVars>>

\* Geolocation.watchPosition success callback, for one position object.
LocationUpdate(fix) ==
    IF DropsSample(fix)
    THEN /\ position' = fix
         /\ UNCHANGED <<reactVars, tripId, motionVars, harshVars, crashVars,
                        sensorVars, speedingVars, lastSpeedCheckTime, autoVars,
                        now, startEnv, endEnv, limitPending, cacheVars>>
    ELSE AcceptSample(fix)

\* rawSpeed > limitData.speedLimit + tolerance, the limit being in km/h.
IsSpeeding(rawSpeed, speedLimit) ==
    rawSpeed > (speedLimit + SpeedingTolerance) * 10

\* Variant: every check that finds the speed above the limit starts an
\* episode.
StartedSpeedingAnyCheck(speeding, was) == speeding

\* The branch "started speeding" of the callback.
StartedSpeeding(speeding, was) == speeding /\ ~was

\* The .then callback of getSpeedLimitCached for the lookup p, resolving
\* with a SpeedLimitInfo whose speedLimit is limit (km/h).
SpeedLimitResult(p, limit) ==
    LET rawSpeed == p.rawSpeed
        time == p.time
        isSpeeding == IsSpeeding(rawSpeed, limit)
        started == StartedSpeeding(isSpeeding, wasSpeeding)
        stopped == ~isSpeeding /\ wasSpeeding
        closes == stopped /\ speedingStartTime # Null /\ speedingStartTime # 0
        overLimit == rawSpeed - limit * 10
    IN  /\ p \in limitPending
        /\ limitPending' = limitPending \ {p}
        /\ currentSpeedLimit' = limit
        /\ wasSpeeding' = IF started THEN TRUE
                          ELSE IF stopped THEN FALSE ELSE wasSpeeding
        /\ speedingStartTime' = IF started THEN time
                                ELSE IF closes THEN Null ELSE speedingStartTime
        /\ speedingViolations' = IF started THEN speedingViolations + 1
                                            ELSE speedingViolations
        /\ speedingDuration' = IF closes
                               THEN speedingDuration + (time - speedingStartTime)
                               ELSE speedingDuration
        /\ maxSpeedOverLimit' =
              IF isSpeeding /\ overLimit > maxSpeedOverLimit
              THEN overLimit ELSE maxSpeedOverLimit
        /\ UNCHANGED <<reactVars, tripId, motionVars, harshVars, crashVars,
                       sensorVars, lastSpeedCheckTime, autoVars, now, position,
                       fixCount, startEnv, endEnv, cacheVars>>

\* -------------------------------------------------- accelerometer callback
Magnitude(s) == Sqrt(s[1] * s[1] + s[2] * s[2] + s[3] * s[3])

\* Variant: an impact sets the flag whether a trip is active or not.
SetsImpactFlagAnyTime(magnitude, trip) == magnitude > HighImpactThreshold

SetsImpactFlag(magnitude, trip) ==
    magnitude > HighImpactThreshold /\ trip # NoTrip

Accelerometer(s) ==
    LET magnitude == Magnitude(s)
        impact == SetsImpactFlag(magnitude, tripId)
    IN  /\ accelerometerMagnitude' = magnitude
        /\ sensorBasedCrash' = IF impact THEN TRUE ELSE sensorBasedCrash
        /\ crashTimeout' = IF impact THEN now + CrashFlagResetMs ELSE crashTimeout
        /\ UNCHANGED <<reactVars, tripId, motionVars, harshVars, crashVars,
                       speedingVars, lastSpeedCheckTime, autoVars, now, position,
                       fixCount, startEnv, endEnv, limitPending, cacheVars>>

\* The setTimeout callback that clears the impact flag.
CrashTimeoutFires ==
    /\ crashTimeout # Null
    /\ now >= crashTimeout
    /\ sensorBasedCrash' = FALSE
    /\ crashTimeout' = Null
    /\ UNCHANGED <<reactVars, tripId, motionVars, harshVars, crashVars,
                   accelerometerMagnitude, speedingVars, lastSpeedCheckTime,
                   autoVars, now, position, fixCount, startEnv, endEnv,
                   limitPending, cacheVars>>


\* --------------------------------------------------------- handleStartTrip
\* Variant: the harsh counts shown on the screen are reset, the counts of
\* the refs are not.
ResetAggregatesKeepsCounts ==
    /\ tripLocationBuffer' = <<>>
    /\ speedSum' = 0 /\ speedCount' = 0
    /\ UNCHANGED <<harshBrakeCount, harshAccelCount>>
    /\ harshEvents' = <<>>
    /\ lastHarshBrakeTime' = 0 /\ lastHarshAccelTime' = 0
    /\ crashDetected' = FALSE /\ crashLat' = Null /\ crashLng' = Null
    /\ speedBasedCrash' = FALSE /\ sensorBasedCrash' = FALSE
    /\ speedingDuration' = 0 /\ speedingViolations' = 0
    /\ maxSpeedOverLimit' = 0
    /\ lastSpeedCheckTime' = 0 /\ currentSpeedLimit' = Null
    /\ wasSpeeding' = FALSE /\ speedingStartTime' = Null

\* The reset handleStartTrip performs once createTrip has answered.
ResetAggregates ==
    /\ tripLocationBuffer' = <<>>
    /\ speedSum' = 0 /\ speedCount' = 0
    /\ harshBrakeCount' = 0 /\ harshAccelCount' = 0
    /\ harshEvents' = <<>>
    /\ lastHarshBrakeTime' = 0 /\ lastHarshAccelTime' = 0
    /\ crashDetected' = FALSE /\ crashLat' = Null /\ crashLng' = Null
    /\ speedBasedCrash' = FALSE /\ sensorBasedCrash' = FALSE
    /\ speedingDuration' = 0 /\ speedingViolations' = 0
    /\ maxSpeedOverLimit' = 0
    /\ lastSpeedCheckTime' = 0 /\ currentSpeedLimit' = Null
    /\ wasSpeeding' = FALSE /\ speedingStartTime' = Null

\* The Start button: rendered while status is idle, disabled while
\* isStartingTrip; the handler of the current render reads the current
\* isStartingTrip.
StartPressed ==
    /\ status = "idle"
    /\ ~isStartingTrip
    /\ IF StartIssuesRequest(isStartingTrip, lastLocation)
       THEN /\ isStartingTrip' = TRUE
            /\ createTripPending' = createTripPending + 1
            /\ error' = NoError
       ELSE /\ error' = "Wait for location"
            /\ UNCHANGED <<isStartingTrip, createTripPending>>
    /\ UNCHANGED <<status, safetyScore, tripId, motionVars, harshVars, crashVars, sensorVars,
                   speedingVars, lastSpeedCheckTime, autoVars, now, position,
                   fixCount, foregroundPending, tripsCreated, endEnv,
                   limitPending, cacheVars>>

\* createTrip resolves with a new trip: handleStartTrip continues up to the
\* await of startForegroundService.
CreateTripResolves ==
    /\ createTripPending > 0
    /\ createTripPending' = createTripPending - 1
    /\ tripsCreated' = tripsCreated + 1
    /\ tripId' = tripsCreated + 1
    /\ ResetAggregates
    /\ status' = "driving"
    /\ safetyScore' = NoScore
    /\ foregroundPending' = foregroundPending + 1
    /\ UNCHANGED <<isStartingTrip, error, lastLocation, smoothedSpeed,
                   accelerometerMagnitude,
                   crashTimeout, autoVars, now, position, fixCount, endEnv,
                   limitPending, cacheVars>>

\* createTrip rejects: the catch and the finally of handleStartTrip.
CreateTripRejects ==
    /\ createTripPending > 0
    /\ createTripPending' = createTripPending - 1
    /\ isStartingTrip' = FALSE
    /\ autoStartInProgress' = FALSE
    /\ error' = "Failed to start trip"
    /\ UNCHANGED <<status, safetyScore, tripId, motionVars, harshVars,
                   crashVars, sensorVars,
                   speedingVars, lastSpeedCheckTime, recentSpeedSamples, now,
                   position, fixCount, foregroundPending, tripsCreated, endEnv,
                   limitPending, cacheVars>>

\* startForegroundService settles: the finally of handleStartTrip.
ForegroundServiceSettles ==
    /\ foregroundPending > 0
    /\ foregroundPending' = foregroundPending - 1
    /\ isStartingTrip' = FALSE
    /\ autoStartInProgress' = FALSE
    /\ UNCHANGED <<status, error, safetyScore, tripId, motionVars, harshVars,
                   crashVars,
                   sensorVars, speedingVars, lastSpeedCheckTime,
                   recentSpeedSamples, now, position, fixCount,
                   createTripPending, tripsCreated, endEnv, limitPending,
                   cacheVars>>

\* ----------------------------------------------------------- handleEndTrip
\* x / y rounded to the nearest integer, halves upwards (Math.round); NaN
\* stays NaN.
RoundDiv(x, y) ==
    IF x = NotANumber THEN NotANumber ELSE (2 * x + y) \div (2 * y)

Min(x, y) == IF x < y THEN x ELSE y

\* Variant: the sum is divided by the count even when the count is 0.
AverageSpeedNoFallback(sum, count, display) ==
    IF count > 0 THEN RoundDiv(sum, count) ELSE NotANumber

\* avgSpeed, in tenths of a km/h as Math.round(avgSpeed * 10) / 10 sends it.
AverageSpeed(sum, count, display) ==
    IF count > 0 THEN RoundDiv(sum, count) ELSE display

\* The sum of the distances between consecutive points of the buffer (cm).
RECURSIVE TotalDistance(_)
TotalDistance(buffer) ==
    IF Len(buffer) < 2 THEN 0
    ELSE LET d == distanceKm(buffer[1].lat, buffer[1].lng,
                             buffer[2].lat, buffer[2].lng)
             rest == TotalDistance(Tail(buffer))
         IN  IF d = NotANumber \/ rest = NotANumber THEN NotANumber
             ELSE d + rest

\* api endTrip(tripId, endLatitude, endLongitude, endTimeIso,
\* averageSpeedKmh, totalDistanceKm, harshBrakingCount,
\* harshAccelerationCount, crashDetected, crashLatitude, crashLongitude,
\* harshEvents): the body of PATCH /api/trips/:id.  The function has twelve
\* parameters; further arguments of a call are bound to nothing.
endTrip(arguments) ==
    IF arguments[9] /\ arguments[10] # Null /\ arguments[11] # Null
    THEN [end_latitude |-> arguments[2], end_longitude |-> arguments[3],
          end_time |-> arguments[4], average_speed_kmh |-> arguments[5],
          total_distance_km |-> arguments[6],
          harsh_braking_count |-> arguments[7],
          harsh_acceleration_count |-> arguments[8],
          crash_detected |-> arguments[9], harsh_events |-> arguments[12],
          crash_latitude |-> arguments[10], crash_longitude |-> arguments[11]]
    ELSE [end_latitude |-> arguments[2], end_longitude |-> arguments[3],
          end_time |-> arguments[4], average_speed_kmh |-> arguments[5],
          total_distance_km |-> arguments[6],
          harsh_braking_count |-> arguments[7],
          harsh_acceleration_count |-> arguments[8],
          crash_detected |-> arguments[9], harsh_events |-> arguments[12]]

\* The fifteen arguments handleEndTrip passes to endTrip, the speeding
\* duration being the finalized one (ms).
EndTripArguments(duration) ==
    << tripId, lastLocation.lat, lastLocation.lng, now,
       AverageSpeed(speedSum, speedCount, speedKmh),
       RoundDiv(TotalDistance(tripLocationBuffer), 1000),
       harshBrakeCount, harshAccelCount,
       crashDetected, crashLat, crashLng, harshEvents,
       RoundDiv(duration, 1000), speedingViolations, maxSpeedOverLimit >>

\* A field of a request body, or the default when the body has no such field.
Field(body, name, default) ==
    IF name \in DOMAIN body THEN body[name] ELSE default

\* The capped penalties of the safety score.
AverageSpeedOver(average) ==
    IF average > AverageSpeedFree
    THEN Min((average - AverageSpeedFree) * AverageSpeedPenalty, AverageSpeedCap)
    ELSE 0

SpeedingDurationOver(seconds) ==
    Min(seconds * SpeedingSecondPenalty, SpeedingDurationCap)

ExcessSpeedOver(excess) == Min(excess * ExcessSpeedPenalty, ExcessSpeedCap)

\* Variant: the score is clamped at 0.
SafetyScoreFloored(brakes, accels, crash, average, seconds, excess) ==
    LET score == ScoreStart - brakes * HarshBrakePenalty
                 - accels * HarshAccelPenalty
                 - (IF crash THEN CrashPenalty ELSE 0)
                 - AverageSpeedOver(average) - SpeedingDurationOver(seconds)
                 - ExcessSpeedOver(excess)
    IN  IF score < 0 THEN 0 ELSE score

\* The safety score the backend computes from the aggregates of a trip.
SafetyScore(brakes, accels, crash, average, seconds, excess) ==
    ScoreStart - brakes * HarshBrakePenalty - accels * HarshAccelPenalty
    - (IF crash THEN CrashPenalty ELSE 0)
    - AverageSpeedOver(average) - SpeedingDurationOver(seconds)
    - ExcessSpeedOver(excess)

\* safety_score of the response to the PATCH with this body.
ScoreOfBody(body) ==
    SafetyScore(body.harsh_braking_count, body.harsh_acceleration_count,
                body.crash_detected, body.average_speed_kmh,
                Field(body, "speeding_duration_seconds", 0),
                Field(body, "max_speed_over_limit", 0))

\* The data sent at trip end as the backend expects them: the body of
\* endTrip with the three speeding aggregates.
TripEndData(arguments) ==
    endTrip(arguments)
    @@ [speeding_duration_seconds |-> arguments[13],
        speeding_violations_count |-> arguments[14],
        max_speed_over_limit |-> arguments[15]]

\* s without its i-th element.
RemoveAt(s, i) == SubSeq(s, 1, i - 1) \o SubSeq(s, i + 1, Len(s))

\* Variant: the missing-fix check comes before the check for a trip.
EndOutcomeFixFirst(trip, pos) ==
    IF pos = NoLocation THEN "wait"
    ELSE IF trip = NoTrip THEN "ignored" ELSE "submit"

\* The early returns of handleEndTrip: no trip, then no accepted position.
EndOutcome(trip, pos) ==
    IF trip = NoTrip THEN "ignored"
    ELSE IF pos = NoLocation THEN "wait" ELSE "submit"

\* handleEndTrip up to the await of endTrip; endCalls counts the calls.
handleEndTrip ==
    LET finalize == wasSpeeding /\ speedingStartTime # Null
                    /\ speedingStartTime # 0
        duration == IF finalize
                    THEN speedingDuration + (now - speedingStartTime)
                    ELSE speedingDuration
        outcome == EndOutcome(tripId, lastLocation)
    IN  /\ endCalls' = endCalls + 1
        /\ IF outcome = "ignored"
           THEN UNCHANGED <<error, speedingDuration, wasSpeeding,
                            endTripPending, endTripIssued, endTripBodies>>
           ELSE IF outcome = "wait"
           THEN /\ error' = "Wait for location"
                /\ UNCHANGED <<speedingDuration, wasSpeeding,
                               endTripPending, endTripIssued, endTripBodies>>
           ELSE /\ error' = NoError
                /\ speedingDuration' = duration
                /\ wasSpeeding' = IF finalize THEN FALSE ELSE wasSpeeding
                /\ endTripPending' =
                      [endTripPending EXCEPT ![tripId] = @ + 1]
                /\ endTripIssued' = [endTripIssued EXCEPT ![tripId] = @ + 1]
                /\ endTripBodies' =
                      [endTripBodies EXCEPT
                         ![tripId] = Append(@, endTrip(EndTripArguments(duration)))]
        /\ UNCHANGED <<status, isStartingTrip, safetyScore, tripId, motionVars,
                       harshVars, crashVars, sensorVars, speedingViolations,
                       maxSpeedOverLimit, currentSpeedLimit, speedingStartTime,
                       lastSpeedCheckTime, autoVars, now, position, fixCount,
                       startEnv, limitPending, cacheVars>>

\* The End button, rendered while status is driving.
EndPressed == status = "driving" /\ handleEndTrip

\* Variant: the buffer is cleared, the harsh events are kept.
ClearTripDataKeepsEvents ==
    tripLocationBuffer' = <<>> /\ UNCHANGED harshEvents

\* The in-memory data of the trip cleared after a successful end.
ClearTripData ==
    tripLocationBuffer' = <<>> /\ harshEvents' = <<>>

\* endTrip for trip t resolves: the rest of handleEndTrip.
EndTripResolves(t) ==
    \E i \in 1..Len(endTripBodies[t]) :
       /\ endTripPending[t] > 0
       /\ endTripPending' = [endTripPending EXCEPT ![t] = @ - 1]
       /\ endTripBodies' = [endTripBodies EXCEPT ![t] = RemoveAt(@, i)]
       /\ safetyScore' = <<ScoreOfBody(endTripBodies[t][i])>>
       /\ status' = "idle"
       /\ tripId' = NoTrip
       /\ ClearTripData
       /\ autoStartInProgress' = FALSE
       /\ UNCHANGED <<isStartingTrip, error, lastLocation, speedSum, speedCount,
                      smoothedSpeed,
                      lastHarshBrakeTime, lastHarshAccelTime, harshBrakeCount,
                      harshAccelCount, crashVars, sensorVars, speedingVars,
                      lastSpeedCheckTime, recentSpeedSamples, now, position,
                      fixCount, startEnv, endTripIssued, endCalls, limitPending,
                      cacheVars>>

\* endTrip for trip t rejects: the catch of handleEndTrip.
EndTripRejects(t) ==
    \E i \in 1..Len(endTripBodies[t]) :
       /\ endTripPending[t] > 0
       /\ endTripPending' = [endTripPending EXCEPT ![t] = @ - 1]
       /\ endTripBodies' = [endTripBodies EXCEPT ![t] = RemoveAt(@, i)]
       /\ error' = "Failed to end trip"
       /\ UNCHANGED <<status, isStartingTrip, safetyScore, tripId, motionVars,
                      harshVars, crashVars, sensorVars, speedingVars,
                      lastSpeedCheckTime, autoVars, now, position, fixCount,
                      startEnv, endTripIssued, endCalls, limitPending,
                      cacheVars>>

\* ------------------------------------------------------------- environment
\* The wall clock advances by d ms.
Tick(d) ==
    /\ now' = now + d
    /\ UNCHANGED <<reactVars, tripId, motionVars, harshVars, crashVars,
                   sensorVars, speedingVars, lastSpeedCheckTime, autoVars,
                   position, fixCount, startEnv, endEnv, limitPending,
                   cacheVars>>

\* The location source delivers one position object.
Fix(point, accuracy, speed, skew) ==
    [latitude |-> point.lat, longitude |-> point.lng,
     timestamp |-> now - skew, accuracy |-> accuracy, speed |-> speed]

DeliverFix(fix, maxFixes) ==
    /\ fixCount < maxFixes
    /\ fixCount' = fixCount + 1
    /\ LocationUpdate(fix)
    /\ createTripPending' <= MaxPendingStarts
    /\ Cardinality(limitPending') <= MaxPendingLimits

\* A timer that is due runs before any event that arrives later.
TimerDue == crashTimeout # Null /\ now >= crashTimeout

\* A trip-end submission awaits the backend.
EndInFlight == \E t \in TripIds : endTripPending[t] > 0

\* No request of the start and end handlers awaits its answer.
HandlersIdle ==
    ~EndInFlight /\ createTripPending = 0 /\ foregroundPending = 0

\* ------------------------------------------- specification: trip lifecycle
\* Runs in which the accelerometer subscription delivers nothing; every fix
\* reports a device speed of 10 m/s with good accuracy at one place.
Next ==
    \/ DeliverFix(Fix(PointA, 10, 10, 0), MaxFixes)
    \/ StartPressed /\ createTripPending' <= MaxPendingStarts
    \/ CreateTripResolves /\ tripsCreated' <= MaxTrips
    \/ CreateTripRejects
    \/ ForegroundServiceSettles
    \/ EndPressed /\ \A t \in TripIds : endTripIssued'[t] <= MaxEndsPerTrip
    \/ \E t \in TripIds : EndTripResolves(t)
    \/ \E t \in TripIds : EndTripRejects(t)
    \/ \E p \in limitPending, limit \in Limits : SpeedLimitResult(p, limit)
    \/ Tick(10000) /\ now' <= MaxClock

Spec == Init /\ [][Next]_vars


\* One trip, started and ended from the buttons, every backend request
\* succeeding.
OneTrip ==
    \/ StartPressed /\ createTripPending' <= 1
    \/ CreateTripResolves /\ tripsCreated' <= 1
    \/ ForegroundServiceSettles
    \/ EndPressed /\ \A t \in TripIds : endTripIssued'[t] <= 1
    \/ \E t \in TripIds : EndTripResolves(t)

\* --------------------------------------- specification: crash detection
\* Fixes with good accuracy: moving at 10 m/s at the first place, or
\* stopped at either place; the accelerometer reports impacts.  The requests
\* of the start and end handlers are answered before the next fix arrives.
CrashFixes == { <<PointA, 10>>, <<PointA, 0>>, <<PointB, 0>> }

NextCrash ==
    \/ \E f \in CrashFixes :
          /\ ~TimerDue /\ HandlersIdle
          /\ DeliverFix(Fix(f[1], 10, f[2], 0), MaxCrashFixes)
    \/ ~TimerDue /\ Accelerometer(<<0, 240, 320>>)
    \/ CrashTimeoutFires
    \/ ~TimerDue /\ OneTrip
    \/ Tick(1000) /\ now' <= MaxCrashClock

SpecCrash == Init /\ [][NextCrash]_vars

\* ------------------------------------------- specification: the cooldown
\* Fixes with poor accuracy: a device speed of 10 or 3 m/s stamped with the
\* clock, or 10 m/s stamped one second behind it; the accelerometer reports
\* a harsh manoeuvre.  The requests of the start and end handlers are
\* answered before the next fix arrives.
CooldownFixes == { <<10, 0>>, <<3, 0>>, <<10, 1000>> }

NextCooldown ==
    \/ \E f \in CooldownFixes :
          /\ HandlersIdle
          /\ DeliverFix(Fix(PointA, 50, f[1], f[2]), MaxCooldownFixes)
    \/ Accelerometer(<<90, 120, 0>>)
    \/ OneTrip
    \/ Tick(3000) /\ now' <= MaxCooldownClock

SpecCooldown == Init /\ [][NextCooldown]_vars

\* --------------------------------------- specification: the fusion rule
\* Fixes with good or poor accuracy and a device speed of 0, 3 or 10 m/s;
\* every accelerometer sample.  The requests of the start and end handlers
\* are answered before the next fix arrives.
NextFusion ==
    \/ \E accuracy \in {10, 50}, speed \in {0, 3, 10} :
          /\ ~TimerDue /\ HandlersIdle
          /\ DeliverFix(Fix(PointA, accuracy, speed, 0), MaxFusionFixes)
    \/ \E s \in AccelSamples : ~TimerDue /\ Accelerometer(s)
    \/ CrashTimeoutFires
    \/ ~TimerDue /\ OneTrip
    \/ Tick(1000) /\ now' <= MaxFusionClock

SpecFusion == Init /\ [][NextFusion]_vars


\* ================================================================ claims
\* The per-trip aggregates: buffer, speed sum and count, harsh counts and
\* list, crash flag and location, and the speeding state.
Aggregates ==
    <<tripLocationBuffer, speedSum, speedCount, harshBrakeCount,
      harshAccelCount, harshEvents, crashDetected, crashLat, crashLng,
      speedingDuration, speedingViolations, maxSpeedOverLimit, wasSpeeding,
      speedingStartTime>>

SpeedingState ==
    <<speedingViolations, wasSpeeding, speedingStartTime, speedingDuration,
      maxSpeedOverLimit>>

\* An end has been invoked for the active trip and awaits the backend.
EndAwaited == tripId # NoTrip /\ endTripPending[tripId] > 0

\* A trip has ended and no trip has been started since.
TripEnded == tripId = NoTrip /\ tripsCreated > 0

\* C1: once end has been invoked for an active trip, no later event (a
\* location sample while the submission awaits the backend, a resolver
\* result after the end) changes the trip's aggregates.  Steps that invoke or
\* complete an end, or complete a start, are not "later events".
C1_NoMutationAfterEnd ==
    [][ ( /\ EndAwaited \/ TripEnded
          /\ UNCHANGED <<tripId, tripsCreated, endTripPending, endTripIssued>> )
        => UNCHANGED Aggregates ]_vars

\* C2: a resolver result changes the speeding state only if a trip is active
\* when it arrives and that trip is the session whose sample issued the query.
C2_ResultOnlyForIssuingSession ==
    [][ \A p \in limitPending :
          ( /\ limitPending' = limitPending \ {p}
            /\ tripId = NoTrip \/ tripId # p.trip )
          => UNCHANGED SpeedingState ]_vars

\* C3: no second trip-creation request is issued while one start is in
\* flight or a trip is active (so no start completes during an active trip).
C3_SingleStartInFlight ==
    /\ createTripPending <= 1
    /\ tripId # NoTrip => createTripPending = 0

\* C4: at most one trip-end submission is issued per session identifier.
C4_OneSubmissionPerTrip == \A t \in TripIds : endTripIssued[t] <= 1


\* ---------------------------------------------- the speed-limit resolver
\* Strings are sequences of one-character strings.
Digits == <<"0", "1", "2", "3", "4", "5", "6", "7", "8", "9">>

IsDigit(c) == \E d \in 1..10 : Digits[d] = c

DigitValue(c) == (CHOOSE d \in 1..10 : Digits[d] = c) - 1

\* String.prototype.toLowerCase, on the letters the tags use.
ToLowerCase(c) ==
    IF c = "M" THEN "m" ELSE IF c = "P" THEN "p" ELSE IF c = "H" THEN "h" ELSE c

\* maxspeedTag.match(/(\d+)/): the first maximal run of digits, <<>> when
\* the tag has no digit.
SpeedMatch(tag) ==
    IF \E i \in 1..Len(tag) : IsDigit(tag[i])
    THEN LET first == CHOOSE i \in 1..Len(tag) :
                         /\ IsDigit(tag[i])
                         /\ \A j \in 1..(i - 1) : ~IsDigit(tag[j])
             last == CHOOSE k \in first..Len(tag) :
                        /\ \A j \in first..k : IsDigit(tag[j])
                        /\ k = Len(tag) \/ ~IsDigit(tag[k + 1])
         IN  SubSeq(tag, first, last)
    ELSE <<>>

\* parseInt(digits, 10).
RECURSIVE ParseInt(_)
ParseInt(digits) ==
    IF digits = <<>> THEN 0
    ELSE ParseInt(SubSeq(digits, 1, Len(digits) - 1)) * 10
         + DigitValue(digits[Len(digits)])

\* maxspeedTag.toLowerCase().includes('mph').
IncludesMph(tag) ==
    \E i \in 1..(Len(tag) - 2) :
        /\ ToLowerCase(tag[i]) = "m"
        /\ ToLowerCase(tag[i + 1]) = "p"
        /\ ToLowerCase(tag[i + 2]) = "h"

\* Math.round(osmSpeed * 1.60934).
MphToKmh(osmSpeed) == (osmSpeed * 160934 + 50000) \div 100000

\* The speed parsed from the maxspeed tag; Null when the tag is absent,
\* empty or without digits.
OsmSpeed(maxspeed) ==
    IF ~maxspeed.present \/ maxspeed.text = <<>> THEN Null
    ELSE IF SpeedMatch(maxspeed.text) = <<>> THEN Null
    ELSE IF IncludesMph(maxspeed.text)
    THEN MphToKmh(ParseInt(SpeedMatch(maxspeed.text)))
    ELSE ParseInt(SpeedMatch(maxspeed.text))

LEBANON_LEGAL_LIMITS ==
    [motorway |-> 120, trunk |-> 100, primary |-> 80, secondary |-> 80,
     tertiary |-> 60, residential |-> 50, living_street |-> 25,
     service |-> 25, track |-> 25, unclassified |-> 50, default |-> 60]

\* Names every object literal inherits from Object.prototype: indexing the
\* table with one of them yields a function or an object, which is truthy
\* and no number.
InheritedProperties ==
    {"constructor", "toString", "valueOf", "hasOwnProperty", "__proto__"}

\* LEBANON_LEGAL_LIMITS[roadType] || LEBANON_LEGAL_LIMITS.default
LegalLimit(roadType) ==
    IF roadType \in DOMAIN LEBANON_LEGAL_LIMITS
    THEN LEBANON_LEGAL_LIMITS[roadType]
    ELSE IF roadType \in InheritedProperties THEN NotANumber
    ELSE LEBANON_LEGAL_LIMITS.default

SpeedLimitInfo(speedLimit, source, osmSpeed, roadType, legalLimit) ==
    [speedLimit |-> speedLimit, source |-> source, osmSpeed |-> osmSpeed,
     roadType |-> roadType, legalLimit |-> legalLimit]

\* Math.abs(osmSpeed - legalLimit) <= 20; the difference from a value that
\* is no number is NaN, and the comparison is false.
OsmTrusted(osmSpeed, legalLimit) ==
    /\ legalLimit # NotANumber
    /\ Abs(osmSpeed - legalLimit) <= OsmMaxDifference

\* Variant: the posted limit is returned although it was distrusted.
DecideKeepsPosted(osmSpeed, roadType, legalLimit) ==
    IF osmSpeed = Null
    THEN SpeedLimitInfo(legalLimit, "legal", osmSpeed, roadType, legalLimit)
    ELSE IF OsmTrusted(osmSpeed, legalLimit)
    THEN SpeedLimitInfo(osmSpeed, "osm", osmSpeed, roadType, legalLimit)
    ELSE SpeedLimitInfo(osmSpeed, "legal_validated", osmSpeed, roadType,
                        legalLimit)

\* The decision logic for the first road of the response.
Decide(osmSpeed, roadType, legalLimit) ==
    IF osmSpeed = Null
    THEN SpeedLimitInfo(legalLimit, "legal", osmSpeed, roadType, legalLimit)
    ELSE IF OsmTrusted(osmSpeed, legalLimit)
    THEN SpeedLimitInfo(osmSpeed, "osm", osmSpeed, roadType, legalLimit)
    ELSE SpeedLimitInfo(legalLimit, "legal_validated", osmSpeed, roadType,
                        legalLimit)

\* The catch block of getSpeedLimit.
OnError ==
    SpeedLimitInfo(LEBANON_LEGAL_LIMITS.default, "default_error", Null, "",
                   LEBANON_LEGAL_LIMITS.default)

\* getSpeedLimit for one outcome of the Overpass request.  The request
\* rejects on a network error, a timeout or an error status; a body that is
\* no JSON object with elements, or has none, is "no road found"; a first
\* element without tags throws a TypeError inside the try block.
getSpeedLimit(response) ==
    IF response.outcome \in {"network error", "timeout"} THEN OnError
    ELSE IF response.outcome \in {"malformed body", "empty result"}
    THEN SpeedLimitInfo(LEBANON_LEGAL_LIMITS.default, "default", Null, "",
                        LEBANON_LEGAL_LIMITS.default)
    ELSE IF response.outcome = "untagged element" THEN OnError
    ELSE Decide(OsmSpeed(response.maxspeed), response.highway,
                LegalLimit(response.highway))

\* ------------------------------------------- the speed-limit cache
PointC == [lat |-> 60, lng |-> 12]

\* The maxspeed tag of a road: absent, or a string.
NoTag == [present |-> FALSE, text |-> <<>>]

Tag(text) == [present |-> TRUE, text |-> text]

\* Outcomes of the Overpass request: a response whose first road has the
\* highway class and the maxspeed tag, or one without a road.
Roads(highway, maxspeed) ==
    [outcome |-> "roads", highway |-> highway, maxspeed |-> maxspeed]

Failure(outcome) == [outcome |-> outcome, highway |-> "", maxspeed |-> NoTag]

\* A living street without a posted limit, and a request that times out.
CacheResponses == {Roads("living_street", NoTag), Failure("timeout")}

\* Math.round(x * 1000) / 1000 of a coordinate in 1e-5 degree, in 1e-3 degree.
RoundToGrid(x) == (x + 50) \div 100

cacheKey(latitude, longitude) ==
    <<RoundToGrid(latitude), RoundToGrid(longitude)>>

\* Map.get: the index of the entry under the key, 0 when there is none.
CacheIndex(cache, key) ==
    IF \E i \in 1..Len(cache) : cache[i].key = key
    THEN CHOOSE i \in 1..Len(cache) : cache[i].key = key
    ELSE 0

\* The entry under the key is served from the cache at time t.
CacheFresh(cache, key, t) ==
    /\ CacheIndex(cache, key) # 0
    /\ t - cache[CacheIndex(cache, key)].timestamp < CACHE_DURATION_MS

\* Map.set: an existing key keeps its place in the insertion order.
CacheSet(cache, key, data, t) ==
    LET entry == [key |-> key, data |-> data, timestamp |-> t]
        i == CacheIndex(cache, key)
    IN  IF i # 0 THEN [cache EXCEPT ![i] = entry] ELSE Append(cache, entry)

\* Variant: the cap compared one entry too late.
CacheTrimLate(cache) ==
    IF Len(cache) > CacheMaxEntries + 1 THEN Tail(cache) ELSE cache

\* Deleting the first key of the Map when it holds more than the cap.
CacheTrim(cache) ==
    IF Len(cache) > CacheMaxEntries THEN Tail(cache) ELSE cache

\* getSpeedLimitCached up to its await: a fresh entry is returned, otherwise
\* the external query is issued.
getSpeedLimitCached(latitude, longitude) ==
    LET key == cacheKey(latitude, longitude)
        hit == CacheFresh(speedLimitCache, key, now)
        id == Len(lookupLog) + 1
    IN  /\ lookupLog' = Append(lookupLog,
                               [key |-> key, start |-> now, queried |-> ~hit])
        /\ lookupPending' = IF hit THEN lookupPending
                            ELSE lookupPending \cup {[id |-> id, key |-> key]}
        /\ UNCHANGED <<reactVars, tripId, motionVars, harshVars, crashVars,
                       sensorVars, speedingVars, lastSpeedCheckTime,
                       currentSpeedLimit, autoVars, now, position, fixCount,
                       startEnv, endEnv, limitPending, speedLimitCache,
                       resolved>>

\* getSpeedLimitCached after its await: the Overpass request of the lookup
\* l has ended with the response, and getSpeedLimit has resolved.
getSpeedLimitSettles(l, response) ==
    /\ l \in lookupPending
    /\ lookupPending' = lookupPending \ {l}
    /\ speedLimitCache' =
          CacheTrim(CacheSet(speedLimitCache, l.key, getSpeedLimit(response),
                             now))
    /\ resolved' = <<response, getSpeedLimit(response)>>
    /\ UNCHANGED <<reactVars, tripId, motionVars, harshVars, crashVars,
                   sensorVars, speedingVars, lastSpeedCheckTime,
                   currentSpeedLimit, autoVars, now, position, fixCount,
                   startEnv, endEnv, limitPending, lookupLog>>

NextCache ==
    \/ \E c \in {PointA, PointB, PointC} :
          /\ Len(lookupLog) < MaxLookups
          /\ getSpeedLimitCached(c.lat, c.lng)
    \/ \E l \in lookupPending, r \in CacheResponses :
          getSpeedLimitSettles(l, r)
    \/ Tick(60000) /\ now' <= MaxCacheClock

SpecCache == Init /\ [][NextCache]_vars

\* C10 as stated: of two lookups with the same grid key that start within
\* 2 minutes of each other, only one issues the external query.
C10_OneQueryWithinTwoMinutes ==
    \A i, j \in 1..Len(lookupLog) :
        ( /\ i < j
          /\ lookupLog[i].key = lookupLog[j].key
          /\ lookupLog[j].start - lookupLog[i].start < CACHE_DURATION_MS )
        => ~(lookupLog[i].queried /\ lookupLog[j].queried)

\* ------------------------------------- specification: the full cache
PointD == [lat |-> -60, lng |-> 12]

\* The cache after lookups of CacheMaxEntries distinct grid cells, each
\* answered at StartClock with the default limit.
FullCache ==
    [i \in 1..CacheMaxEntries |->
        [key |-> <<i, 0>>, data |-> getSpeedLimit(Failure("empty result")),
         timestamp |-> StartClock]]

InitFull == InitWith(FullCache)

\* Lookups of two cells that are not cached (PointA, PointD) and of the
\* cell cached first (PointC).
NextEvict ==
    \/ \E c \in {PointA, PointC, PointD} :
          /\ Len(lookupLog) < MaxEvictLookups
          /\ getSpeedLimitCached(c.lat, c.lng)
    \/ \E l \in lookupPending, r \in CacheResponses :
          getSpeedLimitSettles(l, r)
    \/ Tick(60000) /\ now' <= MaxEvictClock

SpecEvict == InitFull /\ [][NextEvict]_vars

CacheKeys(cache) == {cache[i].key : i \in 1..Len(cache)}

\* The entries of the cache that the step removes.
Evicted ==
    {i \in 1..Len(speedLimitCache) :
        speedLimitCache[i].key \notin CacheKeys(speedLimitCache')}

\* The step completes a lookup whose key is not cached, the cache being full.
InsertsIntoFull ==
    /\ Len(speedLimitCache) = CacheMaxEntries
    /\ \E l \in lookupPending :
          /\ lookupPending' = lookupPending \ {l}
          /\ l.key \notin CacheKeys(speedLimitCache)
          /\ l.key \in CacheKeys(speedLimitCache')

\* C11: after every completed lookup the cache holds at most 100 entries,
\* and inserting a key that is not cached into the full cache removes
\* exactly one entry.
C11_CacheBounded ==
    [][ /\ Len(speedLimitCache') <= CacheMaxEntries
        /\ InsertsIntoFull
           => /\ Len(speedLimitCache') = CacheMaxEntries
              /\ Cardinality(Evicted) = 1
      ]_vars

\* Two concurrent lookups of new cells have completed on the full cache.
C11_Witness ==
    /\ Len(speedLimitCache) = CacheMaxEntries
    /\ lookupPending = {}
    /\ <<0, 0>> \in CacheKeys(speedLimitCache)
    /\ <<-1, 0>> \in CacheKeys(speedLimitCache)
    /\ <<1, 0>> \notin CacheKeys(speedLimitCache)
    /\ <<2, 0>> \notin CacheKeys(speedLimitCache)

\* C12 as stated: the entry an insertion removes is the one with the oldest
\* stored insertion time, and a cache hit leaves the cache as it is.
C12_EvictsOldestStored ==
    [][ /\ InsertsIntoFull
           => \A i \in Evicted : \A j \in 1..Len(speedLimitCache) :
                 speedLimitCache[i].timestamp <= speedLimitCache[j].timestamp
        /\ (Len(lookupLog') > Len(lookupLog)
            /\ ~lookupLog'[Len(lookupLog')].queried)
           => speedLimitCache' = speedLimitCache
      ]_vars

\* --------------------------------------- specification: the resolver
\* Road classes: three of the legal table, one that is not in it, and one
\* that is the name of an inherited property.
RoadClasses ==
    {"motorway", "residential", "living_street", "footway", "constructor"}

\* The tags "", "none", "70", "71", "5", "0", "30 mph", "60 MPH", "50;30".
MaxspeedTags ==
    { NoTag, Tag(<<>>), Tag(<<"n", "o", "n", "e">>),
      Tag(<<"7", "0">>), Tag(<<"7", "1">>), Tag(<<"5">>), Tag(<<"0">>),
      Tag(<<"3", "0", " ", "m", "p", "h">>),
      Tag(<<"6", "0", " ", "M", "P", "H">>),
      Tag(<<"5", "0", ";", "3", "0">>) }

Responses ==
    {Roads(c, t) : c \in RoadClasses, t \in MaxspeedTags}
    \cup {Failure(o) : o \in {"network error", "timeout", "malformed body",
                              "empty result", "untagged element"}}

NextResolver ==
    \/ /\ Len(lookupLog) < MaxResolverLookups
       /\ getSpeedLimitCached(PointA.lat, PointA.lng)
    \/ \E l \in lookupPending, r \in Responses : getSpeedLimitSettles(l, r)
    \/ Tick(60000) /\ now' <= MaxEvictClock

SpecResolver == Init /\ [][NextResolver]_vars

\* The legal limit the spec gives a road class.
TableLimit(roadType) ==
    IF roadType = "motorway" THEN 120
    ELSE IF roadType = "residential" THEN 50
    ELSE IF roadType = "living_street" THEN 25
    ELSE 60

\* C13 as stated: every outcome of the road-data query gives a result whose
\* limit is a positive number, and a network error or a timeout gives the
\* default limit 60 with source default_error.
C13_AlwaysUsableLimit ==
    resolved # <<>>
    => /\ resolved[2].speedLimit # NotANumber
       /\ resolved[2].speedLimit > 0
       /\ resolved[1].outcome \in {"network error", "timeout"}
          => /\ resolved[2].speedLimit = 60
             /\ resolved[2].source = "default_error"

C15_DecisionRule ==
    (resolved # <<>>)
    => LET q == resolved[1]
           r == resolved[2]
           legal == TableLimit(q.highway)
       IN  /\ q.outcome = "empty result"
              => r.speedLimit = 60 /\ r.source = "default"
           /\ (q.outcome = "roads" /\ OsmSpeed(q.maxspeed) = Null)
              => r.speedLimit = legal /\ r.source = "legal"
           /\ ( /\ q.outcome = "roads" /\ OsmSpeed(q.maxspeed) # Null
                /\ Abs(OsmSpeed(q.maxspeed) - legal) <= 20 )
              => r.speedLimit = OsmSpeed(q.maxspeed) /\ r.source = "osm"

\* ------------------------------------------------ the event detector
\* A step that processes a location sample; the sample is position'.
SampleStep == fixCount' = fixCount + 1

\* The previous speed and the raw speed the detector compares in a step that
\* processes a sample of an active trip.
StepPrevSpeed ==
    IF Len(tripLocationBuffer) > 0
    THEN tripLocationBuffer[Len(tripLocationBuffer)].speed ELSE 0

StepRawSpeed == tripLocationBuffer'[Len(tripLocationBuffer')].speed

StepTimeDelta == position'.timestamp - lastLocation.time

\* The detector runs on the sample of the step.
StepDetects ==
    /\ SampleStep /\ tripId # NoTrip
    /\ lastLocation # NoLocation /\ speedCount' >= 2

StepInGate ==
    /\ StepDetects
    /\ StepTimeDelta >= HarshGateMinMs /\ StepTimeDelta <= HarshGateMaxMs

StepGpsGood == isGpsGood(position', StepTimeDelta)

StepDrop ==
    StepPrevSpeed > 0
    /\ (StepPrevSpeed - StepRawSpeed) * 100 >= HarshPercent * StepPrevSpeed

StepRise ==
    StepPrevSpeed > 0
    /\ (StepRawSpeed - StepPrevSpeed) * 100 >= HarshPercent * StepPrevSpeed

\* The step appends a HarshEvent of the kind.
Counted(kind) ==
    /\ Len(harshEvents') = Len(harshEvents) + 1
    /\ harshEvents'[Len(harshEvents')].type = kind

\* C5: any two HarshEvents of the same kind recorded within one trip have
\* timestamps at least 3000 ms apart.
C5_HarshCooldown ==
    \A i, j \in 1..Len(harshEvents) :
        (i < j /\ harshEvents[i].type = harshEvents[j].type)
        => Abs(harshEvents[j].timestamp - harshEvents[i].timestamp)
              >= HarshCooldownMs

\* Two events of one kind are on the list of the active trip.
C5_Witness ==
    /\ tripId # NoTrip
    /\ \E i, j \in 1..Len(harshEvents) :
          i < j /\ harshEvents[i].type = harshEvents[j].type

\* C6: within one trip the crash-detected flag, once true, stays true, and
\* the crash coordinates captured with it are never overwritten.
C6_CrashRecordedOnce ==
    [][ (tripId # NoTrip /\ tripId' = tripId /\ crashDetected)
        => (crashDetected' /\ crashLat' = crashLat /\ crashLng' = crashLng)
      ]_vars

\* After a crash was recorded, both crash signals are true again in the same
\* trip, on a sample at another place.
C6_Witness ==
    /\ tripId # NoTrip /\ crashDetected
    /\ speedBasedCrash /\ sensorBasedCrash
    /\ position.latitude # crashLat

\* C7: a trip is marked crash-detected only while a location sample of an
\* active trip is processed, with the impact flag true and the speed-based
\* signal true (latched earlier or set by this sample); the crash location is
\* the sample's coordinates and both signal flags are false afterwards.
C7_CrashMarking ==
    [][ (~crashDetected /\ crashDetected')
        => /\ SampleStep /\ tripId # NoTrip
           /\ sensorBasedCrash
           /\ \/ speedBasedCrash
              \/ /\ StepDetects
                 /\ StepPrevSpeed >= CrashPrevSpeedMin
                 /\ StepRawSpeed < CrashSpeedMax
                 /\ StepTimeDelta < CrashMaxDeltaMs
           /\ crashLat' = position'.latitude
           /\ crashLng' = position'.longitude
           /\ ~speedBasedCrash' /\ ~sensorBasedCrash'
      ]_vars

\* A crash has just been marked at the place of the last sample, which is
\* not the last accepted position.
C7_Witness ==
    /\ tripId # NoTrip /\ crashDetected
    /\ ~speedBasedCrash /\ ~sensorBasedCrash
    /\ crashLat = position.latitude /\ crashLng = position.longitude
    /\ Len(tripLocationBuffer) > 0
    /\ tripLocationBuffer[Len(tripLocationBuffer)].time = position.timestamp
    /\ tripLocationBuffer[Len(tripLocationBuffer)].lat = crashLat
    /\ crashLat = PointB.lat

\* C8 as stated: with good GPS an event is counted only if the speed-based
\* flag and the impact flag (set above 39 m/s^2, cleared 200 ms later) are set.
C8_GoodGpsNeedsImpactFlag ==
    [][ (StepInGate /\ StepGpsGood)
        => /\ Counted("braking") => (StepDrop /\ sensorBasedCrash)
           /\ Counted("acceleration") => (StepRise /\ sensorBasedCrash)
      ]_vars

\* C8 amended: with good GPS an event is counted only if the speed-based flag
\* is set and the latest accelerometer magnitude exceeds 13 m/s^2.
C8_GoodGpsNeedsSensorFlag ==
    [][ (SampleStep /\ tripId # NoTrip /\ StepGpsGood)
        => /\ Counted("braking")
              => (StepDrop /\ accelerometerMagnitude > SensorFlagThreshold)
           /\ Counted("acceleration")
              => (StepRise /\ accelerometerMagnitude > SensorFlagThreshold)
           /\ Len(harshEvents') <= Len(harshEvents) + 1
      ]_vars

\* The last sample had good accuracy and counted a braking event on a
\* magnitude between the two thresholds, the impact flag being false.
C8_Witness ==
    /\ tripId # NoTrip /\ Len(harshEvents) > 0
    /\ harshEvents[Len(harshEvents)].type = "braking"
    /\ harshEvents[Len(harshEvents)].timestamp = position.timestamp
    /\ position.accuracy = 10
    /\ Len(tripLocationBuffer) >= 2
    /\ tripLocationBuffer[Len(tripLocationBuffer) - 1].speed = 360
    /\ tripLocationBuffer[Len(tripLocationBuffer)].speed = 108
    /\ accelerometerMagnitude = 150
    /\ ~sensorBasedCrash

\* C9: with spotty GPS the sensor flag alone decides whether the sample
\* counts an event and the speed trend only selects the kind: a drop of at
\* least 30% gives braking, otherwise a rise of at least 30% gives
\* acceleration, otherwise braking; without the sensor flag nothing is
\* counted.  (Counting is subject to the detector's gate and to the cooldown
\* of the selected kind.)
C9_SpottyGpsSensorDecides ==
    [][ (SampleStep /\ tripId # NoTrip /\ ~StepGpsGood)
        => LET sensor == accelerometerMagnitude > SensorFlagThreshold
               kind == IF StepDrop THEN "braking"
                       ELSE IF StepRise THEN "acceleration" ELSE "braking"
               last == IF kind = "braking" THEN lastHarshBrakeTime
                                           ELSE lastHarshAccelTime
               due == position'.timestamp - last >= HarshCooldownMs
           IN  /\ ~sensor => harshEvents' = harshEvents
               /\ harshEvents' # harshEvents => Counted(kind)
               /\ (sensor /\ StepInGate /\ due) => Counted(kind)
      ]_vars

\* The last sample had poor accuracy and counted a braking event although
\* the previous speed was 0 and the speed rose.
C9_Witness ==
    /\ tripId # NoTrip /\ Len(harshEvents) > 0
    /\ harshEvents[Len(harshEvents)].type = "braking"
    /\ harshEvents[Len(harshEvents)].timestamp = position.timestamp
    /\ position.accuracy = 50
    /\ Len(tripLocationBuffer) >= 2
    /\ tripLocationBuffer[Len(tripLocationBuffer) - 1].speed = 0
    /\ tripLocationBuffer[Len(tripLocationBuffer)].speed = 360

\* ------------------------------------------------ the speeding monitor
\* C16 as stated: the episode start time is set if and only if the session
\* is currently speeding.
C16_EpisodeFieldsConsistent ==
    (speedingStartTime # Null) <=> wasSpeeding

\* C17 as stated: within a trip the cumulative speeding duration is never
\* negative and never decreases from one state to the next.
C17_DurationMonotone ==
    [][ (tripId # NoTrip /\ tripId' = tripId)
        => /\ speedingDuration' >= speedingDuration
           /\ speedingDuration' >= 0
      ]_vars

\* ------------------------------- specification: the speeding monitor
\* Fixes at 18 or 36 km/h stamped with the clock, or at 36 km/h stamped
\* five seconds behind it; limits of 25 and 60 km/h; checks 10 s apart.
SpeedingFixes == { <<5, 0>>, <<10, 0>>, <<10, 5000>> }

NextSpeeding ==
    \/ \E f \in SpeedingFixes :
          DeliverFix(Fix(PointA, 10, f[1], f[2]), MaxSpeedingFixes)
    \/ OneTrip
    \/ \E p \in limitPending, limit \in Limits : SpeedLimitResult(p, limit)
    \/ Tick(10000) /\ now' <= MaxSpeedingClock

SpecSpeeding == Init /\ [][NextSpeeding]_vars

\* The step processes the result of the outstanding check p.
ResultStep(p) == p \in limitPending /\ limitPending' = limitPending \ {p}

Issued == limitPending' \ limitPending

\* C20: the resolver is queried only from a location sample processed while
\* a trip is active and at least 10 000 ms (in sample timestamps) after the
\* sample of the trip's previous query; the gate advances when the query is
\* issued and at no result, and a sample that is due issues its query
\* whatever is outstanding.
C20_CheckCadence ==
    [][ /\ \A p \in Issued :
             /\ SampleStep /\ tripId # NoTrip /\ p.trip = tripId
             /\ p.time = position'.timestamp
             /\ p.time - lastSpeedCheckTime >= 10000
             /\ lastSpeedCheckTime' = p.time
             /\ \A q \in limitPending :
                   q.trip = p.trip => p.time - q.time >= 10000
        /\ \A q \in limitPending' :
             q.trip = tripId' => q.time <= lastSpeedCheckTime'
        /\ ( /\ SampleStep /\ tripId # NoTrip
             /\ position'.timestamp - lastSpeedCheckTime >= 10000 )
           => Cardinality(Issued) = 1
        /\ lastSpeedCheckTime' # lastSpeedCheckTime
           => \/ Cardinality(Issued) = 1
              \/ tripsCreated' # tripsCreated /\ lastSpeedCheckTime' = 0
      ]_vars

\* Two queries of the active trip are outstanding, issued from samples
\* 10 s apart.
C20_Witness ==
    /\ tripId # NoTrip
    /\ lastSpeedCheckTime = 30000
    /\ \E p, q \in limitPending :
          /\ p.trip = tripId /\ q.trip = tripId
          /\ p.time = 20000 /\ q.time = 30000

\* ------------------------------------ specification: one drive, sampled
\* One fix before the trip and then, during the trip, one fix per second at
\* 18 or 36 km/h on a living street (limit 25 km/h); every check is answered
\* before the next fix, and the trip is not ended.
NextEpisode ==
    \/ \E speed \in {5, 10} :
          /\ limitPending = {}
          /\ fixCount = 0 \/ tripId # NoTrip
          /\ position = NoPosition \/ position.timestamp < now
          /\ DeliverFix(Fix(PointA, 10, speed, 0), MaxEpisodeFixes)
    \/ StartPressed /\ createTripPending' <= 1
    \/ CreateTripResolves /\ tripsCreated' <= 1
    \/ ForegroundServiceSettles
    \/ \E p \in limitPending : SpeedLimitResult(p, 25)
    \/ /\ position # NoPosition /\ position.timestamp = now
       /\ Tick(SampleIntervalMs) /\ now' <= MaxEpisodeClock

SpecEpisode == Init /\ [][NextEpisode]_vars

\* The sample i of the trip is above the limit plus the tolerance.
Above(i) ==
    tripLocationBuffer[i].speed > (currentSpeedLimit + SpeedingTolerance) * 10

\* The samples of the trip are one sample interval apart and form one
\* episode: above the tolerance from sample a up to sample b - 1, below it
\* before and from b on, a check having run at sample b or later.
OneEpisode(a, b) ==
    /\ a < b
    /\ \A i \in 1..(Len(tripLocationBuffer) - 1) :
          tripLocationBuffer[i + 1].time - tripLocationBuffer[i].time
             = SampleIntervalMs
    /\ \A i \in 1..Len(tripLocationBuffer) : Above(i) <=> (a <= i /\ i < b)
    /\ lastSpeedCheckTime >= tripLocationBuffer[b].time

\* C19 as stated: after an episode of exactly T seconds above the tolerance,
\* the cumulative speeding time is T, within one sample interval.
C19_EpisodeDuration ==
    ( /\ tripId # NoTrip /\ endTripPending[tripId] = 0
      /\ currentSpeedLimit # Null /\ limitPending = {} )
    => \A a, b \in 1..Len(tripLocationBuffer) :
          OneEpisode(a, b)
          => Abs(speedingDuration
                 - (tripLocationBuffer[b].time - tripLocationBuffer[a].time))
                <= SampleIntervalMs

\* ------------------------------------------------- claims: trip start, end
\* A step in which handleEndTrip issues a trip-end submission.
EndStep == \E t \in TripIds : endTripIssued'[t] = endTripIssued[t] + 1

\* A speeding episode is open.
EpisodeOpen == wasSpeeding /\ speedingStartTime # Null

\* C21: when end is invoked while a speeding episode is open, the elapsed
\* duration of the episode up to now is added to the cumulative total and the
\* episode is closed (not speeding, no episode start) when the aggregates are
\* submitted; an end invoked with no episode open adds nothing.
C21_EndClosesEpisode ==
    [][ EndStep =>
          IF EpisodeOpen
          THEN /\ speedingDuration' = speedingDuration + (now - speedingStartTime)
               /\ ~wasSpeeding'
               /\ speedingStartTime' = Null
          ELSE speedingDuration' = speedingDuration ]_vars

\* ------------------------------------------- specification: the session
\* Both handlers called in every state in which the app can call them (the
\* End button of the last render may still be on the screen when the trip
\* has ended, and End is called again only once the previous submission is
\* answered), the backend accepting or rejecting; fixes of poor accuracy at
\* 36 km/h at one place, the accelerometer reporting a harsh manoeuvre, the
\* resolver answering 25 km/h.
NextSession ==
    \/ DeliverFix(Fix(PointA, 50, 10, 0), MaxSessionFixes)
    \/ Accelerometer(<<90, 120, 0>>)
    \/ StartPressed /\ createTripPending' <= MaxPendingStarts
    \/ CreateTripResolves /\ tripsCreated' <= MaxTrips
    \/ CreateTripRejects
    \/ ForegroundServiceSettles
    \/ ~EndInFlight /\ handleEndTrip /\ endCalls' <= MaxEndCalls
    \/ \E t \in TripIds : EndTripResolves(t)
    \/ \E t \in TripIds : EndTripRejects(t)
    \/ \E p \in limitPending : SpeedLimitResult(p, 25)
    \/ Tick(1000) /\ now' <= MaxSessionClock

SpecSession == Init /\ [][NextSession]_vars

StartSucceeds == tripsCreated' = tripsCreated + 1

\* C23: immediately after a successful start every aggregate is at its zero
\* value, whatever the previous trip left behind: buffer, speed sum and
\* count, harsh counts and list, cooldown timestamps, crash flag, location
\* and signals, and the speeding state.
C23_StartResetsAggregates ==
    [][ StartSucceeds =>
          /\ tripId' # NoTrip /\ status' = "driving"
          /\ tripLocationBuffer' = <<>>
          /\ speedSum' = 0 /\ speedCount' = 0
          /\ harshBrakeCount' = 0 /\ harshAccelCount' = 0
          /\ harshEvents' = <<>>
          /\ lastHarshBrakeTime' = 0 /\ lastHarshAccelTime' = 0
          /\ ~crashDetected' /\ crashLat' = Null /\ crashLng' = Null
          /\ ~speedBasedCrash' /\ ~sensorBasedCrash'
          /\ speedingDuration' = 0 /\ speedingViolations' = 0
          /\ maxSpeedOverLimit' = 0
          /\ ~wasSpeeding' /\ speedingStartTime' = Null ]_vars

\* The second trip has just started with its aggregates at zero, while a
\* speed check issued by a sample of the first trip is still unanswered.
C23_Witness ==
    /\ tripId = 2 /\ status = "driving"
    /\ speedCount = 0 /\ speedSum = 0 /\ tripLocationBuffer = <<>>
    /\ harshBrakeCount = 0 /\ harshEvents = <<>>
    /\ \E p \in limitPending : p.trip = 1 /\ p.rawSpeed > 0

\* A step in which handleEndTrip is called.
EndCalled == endCalls' = endCalls + 1

\* C24: end invoked while no trip is active is a no-op: it issues no
\* trip-end submission, raises no error and leaves the status, the score and
\* every aggregate unchanged.
C24_EndWhileIdleIsNoOp ==
    [][ (EndCalled /\ tripId = NoTrip) =>
          /\ UNCHANGED <<endTripPending, endTripIssued, endTripBodies>>
          /\ UNCHANGED <<status, error, safetyScore, tripId, isStartingTrip>>
          /\ UNCHANGED Aggregates ]_vars

\* End was called twice; one call ended the only trip and the other found
\* no trip: the session is idle with the score of the trip.
C24_Witness ==
    /\ tripId = NoTrip /\ status = "idle"
    /\ tripsCreated = 1 /\ endCalls = 2
    /\ endTripIssued[1] = 1 /\ endTripPending[1] = 0
    /\ safetyScore # NoScore

\* --------------------------------------- specification: the trip summary
\* One trip between two places 45.75 m apart: fixes with good accuracy that
\* report a device speed of 36 km/h at the first place, or no device speed
\* at the second; the accelerometer reports a harsh manoeuvre and the
\* resolver answers 25 km/h.  The requests of the start and end handlers are
\* answered before the next fix arrives.
SummaryFixes == { <<PointA, 10>>, <<PointB, Null>> }

NextSummary ==
    \/ \E f \in SummaryFixes :
          /\ HandlersIdle
          /\ DeliverFix(Fix(f[1], 10, f[2], 0), MaxSummaryFixes)
    \/ Accelerometer(<<90, 120, 0>>)
    \/ OneTrip
    \/ \E p \in limitPending : SpeedLimitResult(p, 25)
    \/ Tick(2000) /\ now' <= MaxSummaryClock

SpecSummary == Init /\ [][NextSummary]_vars

\* The body of the submission the step issues.
IssuedBody == endTripBodies'[tripId][Len(endTripBodies'[tripId])]

RECURSIVE SumOfSpeeds(_)
SumOfSpeeds(buffer) ==
    IF buffer = <<>> THEN 0 ELSE Head(buffer).speed + SumOfSpeeds(Tail(buffer))

\* C25: at trip end the average speed submitted is the sum of the raw speeds
\* of the samples of the trip divided by their number (to the nearest tenth
\* of a km/h); with no sample accumulated and an empty buffer the total
\* distance is 0 and the average speed is the last display speed, a number.
C25_AverageAtEnd ==
    [][ EndStep =>
          LET n == Len(tripLocationBuffer)
              average == IssuedBody.average_speed_kmh
          IN  /\ speedCount = n /\ speedSum = SumOfSpeeds(tripLocationBuffer)
              /\ average # NotANumber /\ average # Null
              /\ IF n > 0
                 THEN 2 * Abs(average * n - speedSum) <= n
                 ELSE /\ average = speedKmh
                      /\ IssuedBody.total_distance_km = 0 ]_vars

\* A trip with no sample is being ended after a sample at 36 km/h was shown
\* before it: the submission carries the display speed and distance 0.
C25_Witness ==
    /\ tripId # NoTrip /\ speedCount = 0 /\ tripLocationBuffer = <<>>
    /\ Len(endTripBodies[tripId]) = 1
    /\ endTripBodies[tripId][1].average_speed_kmh = speedKmh
    /\ speedKmh > 0
    /\ endTripBodies[tripId][1].total_distance_km = 0

\* C26: the list of harsh events is non-empty only while a trip is active:
\* it is empty in every state in which no trip is active.
C26_HarshEventsOnlyWhileActive == tripId = NoTrip => harshEvents = <<>>

\* A trip in which a harsh brake was counted has ended: the count is still
\* there and the list is empty.
C26_Witness ==
    /\ tripId = NoTrip /\ status = "idle" /\ tripsCreated > 0
    /\ harshBrakeCount > 0 /\ harshEvents = <<>>



\* C28: the trip-end submission carries every finalized aggregate of the
\* trip with the session's value at the moment of end: end coordinates, end
\* time, average speed, total distance, harsh-braking and
\* harsh-acceleration counts, the harsh-event list, the crash flag with its
\* location when a crash was detected, the cumulative speeding duration,
\* the speeding violation count and the max excess over the limit.
C28_SubmissionCarriesAggregates ==
    [][ EndStep =>
          /\ IssuedBody.end_latitude = lastLocation.lat
          /\ IssuedBody.end_longitude = lastLocation.lng
          /\ IssuedBody.end_time = now
          /\ IssuedBody.average_speed_kmh
                = AverageSpeed(speedSum, speedCount, speedKmh)
          /\ IssuedBody.total_distance_km
                = RoundDiv(TotalDistance(tripLocationBuffer), 1000)
          /\ IssuedBody.harsh_braking_count = harshBrakeCount
          /\ IssuedBody.harsh_acceleration_count = harshAccelCount
          /\ IssuedBody.harsh_events = harshEvents
          /\ IssuedBody.crash_detected = crashDetected
          /\ crashDetected =>
                /\ Field(IssuedBody, "crash_latitude", Null) = crashLat
                /\ Field(IssuedBody, "crash_longitude", Null) = crashLng
          /\ Field(IssuedBody, "speeding_duration_seconds", Null)
                = RoundDiv(speedingDuration', 1000)
          /\ Field(IssuedBody, "speeding_violations_count", Null)
                = speedingViolations
          /\ Field(IssuedBody, "max_speed_over_limit", Null)
                = maxSpeedOverLimit ]_vars

\* ------------------------------------------- specification: safety score
\* The aggregates of the trips that are scored: average speeds (tenths of a
\* km/h) up to, just above and far above 90 km/h, speeding durations (s) and
\* max excesses (tenths of a km/h) below and above their caps.
ScoreAverages == {0, 900, 950, 1400}
ScoreSeconds == {0, 180, 700}
ScoreExcesses == {0, 225, 600}

\* One trip of one sample has been ended and its submission, which carries
\* all the aggregates, awaits the backend.
InitScore ==
    \E brakes \in 0..MaxScoreBrakes, accels \in 0..MaxScoreAccels,
       crash \in BOOLEAN, average \in ScoreAverages,
       seconds \in ScoreSeconds, excess \in ScoreExcesses :
       LET fix == [latitude |-> PointA.lat, longitude |-> PointA.lng,
                   timestamp |-> StartClock, accuracy |-> 10, speed |-> Null]
       IN  /\ status = "driving" /\ isStartingTrip = FALSE
           /\ error = NoError /\ safetyScore = NoScore
           /\ tripId = 1
           /\ lastLocation = [lat |-> PointA.lat, lng |-> PointA.lng,
                              time |-> StartClock]
           /\ smoothedSpeed = average * SmoothedPerTenth
           /\ speedSum = average /\ speedCount = 1
           /\ tripLocationBuffer =
                 << [lat |-> PointA.lat, lng |-> PointA.lng,
                     time |-> StartClock, speed |-> average] >>
           /\ lastHarshBrakeTime = (IF brakes > 0 THEN StartClock ELSE 0)
           /\ lastHarshAccelTime = (IF accels > 0 THEN StartClock ELSE 0)
           /\ harshBrakeCount = brakes /\ harshAccelCount = accels
           /\ harshEvents =
                 [i \in 1..(brakes + accels) |->
                    HarshEvent(IF i <= brakes THEN "braking" ELSE "acceleration",
                               StartClock, fix, average)]
           /\ accelerometerMagnitude = InitialMagnitude
           /\ crashDetected = crash
           /\ crashLat = (IF crash THEN PointA.lat ELSE Null)
           /\ crashLng = (IF crash THEN PointA.lng ELSE Null)
           /\ speedBasedCrash = FALSE /\ sensorBasedCrash = FALSE
           /\ speedingDuration = seconds * 1000
           /\ speedingViolations = (IF seconds > 0 THEN 1 ELSE 0)
           /\ maxSpeedOverLimit = excess
           /\ lastSpeedCheckTime = StartClock /\ currentSpeedLimit = 25
           /\ wasSpeeding = FALSE /\ speedingStartTime = Null
           /\ recentSpeedSamples = <<>> /\ autoStartInProgress = FALSE
           /\ crashTimeout = Null
           /\ now = StartClock /\ position = fix /\ fixCount = 1
           /\ createTripPending = 0 /\ foregroundPending = 0
           /\ tripsCreated = 1
           /\ endTripPending = [t \in TripIds |-> IF t = 1 THEN 1 ELSE 0]
           /\ endTripIssued = [t \in TripIds |-> IF t = 1 THEN 1 ELSE 0]
           /\ endTripBodies =
                 [t \in TripIds |->
                    IF t = 1
                    THEN << TripEndData(EndTripArguments(speedingDuration)) >>
                    ELSE <<>>]
           /\ endCalls = 1
           /\ limitPending = {}
           /\ speedLimitCache = <<>> /\ lookupPending = {} /\ lookupLog = <<>>
           /\ resolved = <<>>

NextScore ==
    \/ \E t \in TripIds : EndTripResolves(t)
    \/ \E t \in TripIds : EndTripRejects(t)

SpecScore == InitScore /\ [][NextScore]_vars

\* The average speed of the scored trip, in tenths of a km/h.
ScoredAverage == speedSum \div speedCount

MalformedPoints ==
    { PointA, PointB,
      [lat |-> Null, lng |-> 0], [lat |-> NotANumber, lng |-> 0],
      [lat |-> Infinity, lng |-> 0], [lat |-> 0, lng |-> Null] }

NextMalformed ==
    \/ \E point \in MalformedPoints :
          /\ HandlersIdle
          /\ DeliverFix(Fix(point, 10, 10, 0), MaxMalformedFixes)
    \/ Accelerometer(<<90, 120, 0>>)
    \/ OneTrip
    \/ \E p \in limitPending : SpeedLimitResult(p, 25)
    \/ Tick(2000) /\ now' <= MaxMalformedClock

SpecMalformed == Init /\ [][NextMalformed]_vars

\* The step delivers a sample one of whose coordinates is missing, NaN or
\* infinite.
MalformedSample ==
    /\ SampleStep
    /\ \/ ~IsFinite(position'.latitude)
       \/ ~IsFinite(position'.longitude)

\* C27: a location sample with a missing, NaN or infinite latitude or
\* longitude changes nothing: the last accepted position, the smoothed
\* speed, the buffer, the sum and count, the harsh events, the crash flags
\* and the speeding state stay as they are, no speed-limit query is issued
\* and no trip start is requested.
C27_MalformedSampleDropped ==
    [][MalformedSample =>
          UNCHANGED <<reactVars, tripId, motionVars, harshVars, crashVars,
                      sensorVars, speedingVars, lastSpeedCheckTime, autoVars,
                      startEnv, endEnv, limitPending>>]_vars


\* ------------------------------------- specification: a stationary vehicle
\* Fixes with poor accuracy at one place, one a second at most, the device
\* reporting 0 or 10 m/s; the accelerometer reports a harsh manoeuvre; one
\* trip.
NextStationary ==
    \/ \E speed \in {0, 10} :
          /\ HandlersIdle
          /\ position.timestamp # now
          /\ DeliverFix(Fix(PointA, 50, speed, 0), MaxStationaryFixes)
    \/ Accelerometer(<<90, 120, 0>>)
    \/ OneTrip
    \/ Tick(1000) /\ now' <= MaxStationaryClock

SpecStationary == Init /\ [][NextStationary]_vars

\* The time between the sample of the step and the sample before it.
StepSampleGap == position'.timestamp - position.timestamp

\* C30: the detector runs on every sample of an active trip once two speed
\* samples exist and the previous sample is 0.5 s to 5 s old, also when the
\* vehicle has not moved 5 m for longer than 5 s: with spotty GPS, the
\* sensor flagging a harsh manoeuvre and both cooldowns elapsed, such a
\* sample records a harsh event.
C30_DetectorRunsOnEverySample ==
    [][ ( /\ SampleStep /\ tripId # NoTrip /\ speedCount' >= 2
          /\ position # NoPosition
          /\ StepSampleGap >= HarshGateMinMs /\ StepSampleGap <= HarshGateMaxMs
          /\ position'.accuracy > GpsModerateAccuracy
          /\ sensorFlagged(accelerometerMagnitude)
          /\ CooldownElapsed(position'.timestamp, lastHarshBrakeTime)
          /\ CooldownElapsed(position'.timestamp, lastHarshAccelTime) )
        => Len(harshEvents') = Len(harshEvents) + 1 ]_vars


\* ------------------------------------------------ specification: the track
\* A place 10 m from the first one.
PointNear == [lat |-> 9, lng |-> 0]

\* Accuracy and device speed of the fixes of the track: no device speed
\* with an accuracy at either side of 35 m and of 500 m or with none, a
\* negative device speed, and a device speed of 10 m/s.
TrackFixes ==
    { <<35, Null>>, <<36, Null>>, <<500, Null>>, <<501, Null>>,
      <<Null, Null>>, <<35, -1>>, <<36, 10>> }

\* Fixes at three places, one a second at most, before and during one trip
\* that is not ended.
NextTrack ==
    \/ \E point \in {PointA, PointNear, PointB}, f \in TrackFixes :
          /\ HandlersIdle
          /\ position.timestamp # now
          /\ DeliverFix(Fix(point, f[1], f[2], 0), MaxTrackFixes)
    \/ StartPressed /\ createTripPending' <= 1
    \/ CreateTripResolves /\ tripsCreated' <= 1
    \/ ForegroundServiceSettles
    \/ \E p \in limitPending : SpeedLimitResult(p, 25)
    \/ Tick(1000) /\ now' <= MaxTrackClock

SpecTrack == Init /\ [][NextTrack]_vars

\* The distance (cm) and the time (ms) from the last accepted position to
\* the sample of the step.
StepDistance ==
    distanceKm(lastLocation.lat, lastLocation.lng,
               position'.latitude, position'.longitude)

\* C31: the raw speed of a sample is the device speed converted from m/s to
\* km/h when it is present and non-negative; otherwise it is displacement
\* over elapsed time against the last accepted position when the elapsed
\* time is at least 1.5 s, the displacement at least 15 m and the accuracy
\* at most 35 m, missing or above 500 m; in every other case it is 0.
C31_RawSpeed ==
    [][ (SampleStep /\ tripId # NoTrip) =>
          LET device == position'.speed
              accuracy == position'.accuracy
              derived == /\ lastLocation # NoLocation
                         /\ StepTimeDelta >= 1500
                         /\ StepDistance >= 1500
                         /\ (accuracy = Null \/ accuracy <= 35 \/ accuracy > 500)
          IN  StepRawSpeed =
                 IF device # Null /\ device >= 0 THEN 36 * device
                 ELSE IF derived
                 THEN (StepDistance * 360) \div StepTimeDelta
                 ELSE 0 ]_vars

\* The buffer of a trip holds a speed derived from the displacement and a
\* zero for a sample with accuracy 36 m that came two seconds later from
\* another place.
C31_Witness ==
    /\ Len(tripLocationBuffer) = 2
    /\ tripLocationBuffer[1].speed > 0
    /\ tripLocationBuffer[2].speed = 0
    /\ tripLocationBuffer[2].lat # tripLocationBuffer[1].lat
    /\ tripLocationBuffer[2].time - tripLocationBuffer[1].time = 2000
    /\ position.speed = Null /\ position.accuracy = 36


\* C32: the last accepted position is replaced by a fix only when there is
\* none or the fix lies at least 5 m from it; a closer fix leaves its
\* coordinates and its time unchanged, and no other step (start, end, their
\* completions) changes or clears it.
C32_LastAcceptedPosition ==
    [][ IF SampleStep
        THEN lastLocation' =
                IF lastLocation = NoLocation \/ StepDistance >= 500
                THEN [lat |-> position'.latitude, lng |-> position'.longitude,
                      time |-> position'.timestamp]
                ELSE lastLocation
        ELSE lastLocation' = lastLocation ]_vars

\* A trip was started and ended; the last accepted position is older than
\* the last fix, which came from the same place.
C32_Witness ==
    /\ tripsCreated > 0 /\ tripId = NoTrip /\ status = "idle"
    /\ lastLocation # NoLocation
    /\ position.latitude = lastLocation.lat
    /\ position.timestamp > lastLocation.time


\* ------------------------------------------- specification: GPS quality
\* The accuracies of the fixes: 0, either side of 20 m and of 30 m, none.
GpsAccuracies == {0, 20, 21, 30, 31, Null}

\* Fixes at one place with a device speed of 10 m/s, one a second at most,
\* before and during one trip that is not ended.
NextGps ==
    \/ \E accuracy \in GpsAccuracies :
          /\ HandlersIdle
          /\ position.timestamp # now
          /\ DeliverFix(Fix(PointA, accuracy, 10, 0), MaxGpsFixes)
    \/ StartPressed /\ createTripPending' <= 1
    \/ CreateTripResolves /\ tripsCreated' <= 1
    \/ ForegroundServiceSettles
    \/ \E p \in limitPending : SpeedLimitResult(p, 25)
    \/ Tick(1000) /\ now' <= MaxGpsClock

SpecGps == Init /\ [][NextGps]_vars

\* C33: GPS quality is good exactly when the reported accuracy is at most
\* 20 m, 0 included, or at most 30 m with at most 3 s elapsed; in all other
\* cases, a missing accuracy included, it is spotty.
C33_GpsQuality ==
    [][ StepInGate =>
          LET accuracy == position'.accuracy
          IN  StepGpsGood <=>
                 /\ accuracy # Null
                 /\ \/ accuracy <= 20
                    \/ accuracy <= 30 /\ StepTimeDelta <= 3000 ]_vars


\* ------------------------------------------ specification: the impact flag
\* The accelerometer reports an impact of 40 m/s^2 or gravity alone; fixes
\* with good accuracy at 10 m/s or stopped; one trip.  The clock advances
\* by 100 ms, and the timer that clears the flag runs when it is due.
NextImpact ==
    \/ \E speed \in {0, 10} :
          /\ ~TimerDue /\ HandlersIdle
          /\ DeliverFix(Fix(PointA, 10, speed, 0), MaxImpactFixes)
    \/ \E s \in { <<0, 240, 320>>, <<0, 0, 98>> } : ~TimerDue /\ Accelerometer(s)
    \/ CrashTimeoutFires
    \/ ~TimerDue /\ OneTrip
    \/ ~TimerDue /\ Tick(100) /\ now' <= MaxImpactClock

SpecImpact == Init /\ [][NextImpact]_vars

\* The step runs the timer that clears the impact flag.
TimerStep == crashTimeout # Null /\ crashTimeout' = Null

\* C34: the impact flag is set only by an accelerometer sample above
\* 39 m/s^2 received while a trip is active, never by a sample received
\* while idle; every such sample schedules the clearing 200 ms later,
\* replacing the one scheduled before; the flag becomes false when the
\* timer runs, 200 ms after the most recent such sample, or earlier when a
\* crash is recorded or a trip starts.
C34_ImpactFlag ==
    [][ /\ (~sensorBasedCrash /\ sensorBasedCrash')
           => /\ tripId # NoTrip /\ tripId' = tripId
              /\ accelerometerMagnitude' > 390
              /\ crashTimeout' = now + 200
        /\ (crashTimeout' # crashTimeout /\ ~TimerStep)
           => /\ tripId # NoTrip /\ accelerometerMagnitude' > 390
              /\ sensorBasedCrash' /\ crashTimeout' = now + 200
        /\ sensorBasedCrash' => (crashTimeout' # Null /\ now' <= crashTimeout')
        /\ TimerStep => (now = crashTimeout /\ ~sensorBasedCrash')
        /\ (sensorBasedCrash /\ ~sensorBasedCrash')
           => \/ TimerStep
              \/ ~crashDetected /\ crashDetected'
              \/ tripId' # tripId /\ tripId' # NoTrip ]_vars

\* The flag is true in an active trip after an impact received later than
\* the start of the run, its clearing scheduled 200 ms after that impact.
C34_Witness ==
    /\ sensorBasedCrash /\ tripId # NoTrip
    /\ crashTimeout = now + 200 /\ now > StartClock
    /\ accelerometerMagnitude > 390


\* ------------------------------------- specification: a rejected trip end
\* One trip driven at 36 km/h on a living street (limit 25 km/h): every
\* check is answered before the next fix; End is pressed once the previous
\* submission is answered, up to twice, and the backend accepts or rejects.
NextFailedEnd ==
    \/ /\ HandlersIdle /\ limitPending = {}
       /\ DeliverFix(Fix(PointA, 10, 10, 0), MaxFailedEndFixes)
    \/ StartPressed /\ createTripPending' <= 1
    \/ CreateTripResolves /\ tripsCreated' <= 1
    \/ ForegroundServiceSettles
    \/ /\ ~EndInFlight /\ limitPending = {}
       /\ EndPressed /\ endCalls' <= MaxEndCalls
    \/ \E t \in TripIds : EndTripResolves(t)
    \/ \E t \in TripIds : EndTripRejects(t)
    \/ \E p \in limitPending : SpeedLimitResult(p, 25)
    \/ Tick(5000) /\ now' <= MaxFailedEndClock

SpecFailedEnd == Init /\ [][NextFailedEnd]_vars

\* C35: a rejected trip end leaves the session active with its aggregates
\* and its speeding state as they were before the attempt, so a speeding
\* episode that continues across the attempt is counted as one violation:
\* a trip all of whose samples are above the limit plus the tolerance has
\* at most one violation.
C35_FailedEndKeepsEpisode ==
    ( /\ tripId # NoTrip /\ currentSpeedLimit # Null
      /\ \A i \in 1..Len(tripLocationBuffer) : Above(i) )
    => speedingViolations <= 1


\* The step completes a trip-end submission of trip t.
EndAnswered(t) == endTripPending'[t] = endTripPending[t] - 1

\* C36: the completion of an end request closes only the session it was
\* invoked for: a response to an end of a trip that arrives when another
\* trip is active leaves the session identifier, the buffer, the list of
\* harsh events and the status of that trip as they are.
C36_EndClosesOwnSession ==
    [][ \A t \in TripIds :
          (EndAnswered(t) /\ tripId # NoTrip /\ tripId # t)
          => /\ tripId' = tripId /\ status' = status
             /\ tripLocationBuffer' = tripLocationBuffer
             /\ harshEvents' = harshEvents ]_vars


\* The number of events of the kind on a list of harsh events.
EventsOfKind(events, kind) ==
    Cardinality({i \in 1..Len(events) : events[i].type = kind})

\* C37: while a trip is active the harsh-braking count is the number of
\* braking entries of the list of harsh events, the harsh-acceleration count
\* the number of acceleration entries, and the buffer is as long as the
\* speed sample count; a location sample appends at most one event; the
\* counts submitted at trip end agree with the list submitted.
C37_CountsAgreeWithEvents ==
    [][ /\ tripId' # NoTrip
           => /\ harshBrakeCount' = EventsOfKind(harshEvents', "braking")
              /\ harshAccelCount' = EventsOfKind(harshEvents', "acceleration")
              /\ Len(tripLocationBuffer') = speedCount'
        /\ Len(harshEvents') <= Len(harshEvents) + 1
        /\ EndStep
           => /\ IssuedBody.harsh_braking_count
                    = EventsOfKind(IssuedBody.harsh_events, "braking")
              /\ IssuedBody.harsh_acceleration_count
                    = EventsOfKind(IssuedBody.harsh_events, "acceleration") ]_vars

\* The end of a trip with one event of each kind has been submitted.
C37_Witness ==
    /\ tripId # NoTrip /\ endTripPending[tripId] = 1
    /\ harshBrakeCount = 1 /\ harshAccelCount = 1
    /\ Len(harshEvents) = 2 /\ Len(tripLocationBuffer) >= 2


\* C38: the speed-based crash signal is set only by a sample of an active
\* trip with a previous speed of at least 20 km/h, a speed below 5 km/h and
\* less than 2 s elapsed, and once set it stays true, whatever the time
\* that passes, until a crash is recorded or a trip starts.
C38_SpeedSignalLatches ==
    [][ /\ (~speedBasedCrash /\ speedBasedCrash')
           => /\ SampleStep /\ tripId # NoTrip
              /\ StepPrevSpeed >= 200 /\ StepRawSpeed < 50
              /\ StepTimeDelta < 2000
        /\ (speedBasedCrash /\ ~speedBasedCrash')
           => \/ ~crashDetected /\ crashDetected'
              \/ tripId' # tripId /\ tripId' # NoTrip ]_vars

\* A crash has been recorded on a sample at 36 km/h, one second after the
\* sample of the sudden stop.
C38_Witness ==
    LET n == Len(tripLocationBuffer)
    IN  /\ tripId # NoTrip /\ crashDetected /\ n >= 3
        /\ tripLocationBuffer[n].speed = 360
        /\ tripLocationBuffer[n - 1].speed = 0
        /\ tripLocationBuffer[n - 2].speed = 360
        /\ tripLocationBuffer[n].time = tripLocationBuffer[n - 1].time + 1000
        /\ crashLat = tripLocationBuffer[n].lat
        /\ ~speedBasedCrash


\* ------------------------------ specification: refreshing the full cache
\* Lookups of the cell cached first (PointC) and of a cell that is not
\* cached (PointD) on the full cache, whose entries expire after one step
\* of the clock; the external query succeeds or times out.
NextRefresh ==
    \/ \E c \in {PointC, PointD} :
          /\ Len(lookupLog) < MaxRefreshLookups
          /\ getSpeedLimitCached(c.lat, c.lng)
    \/ \E l \in lookupPending, r \in CacheResponses :
          getSpeedLimitSettles(l, r)
    \/ Tick(CACHE_DURATION_MS) /\ now' <= MaxRefreshClock

SpecRefresh == InitFull /\ [][NextRefresh]_vars

\* The step starts a lookup.
LookupStep == Len(lookupLog') = Len(lookupLog) + 1

\* The lookup i of the log issued the external query, which has been
\* answered, and started less than 2 minutes ago.
AnsweredLately(i) ==
    /\ lookupLog[i].queried
    /\ \A l \in lookupPending : l.id # i
    /\ now - lookupLog[i].start < CACHE_DURATION_MS

\* C39: the result of an external query, a failed one included, is served
\* to every lookup of the same grid key for the next 2 minutes without a
\* new external query, and no cached result is served once it is 2 minutes
\* old.
C39_FailureCached ==
    [][ LookupStep =>
          LET lookup == lookupLog'[Len(lookupLog')]
              index == CacheIndex(speedLimitCache, lookup.key)
          IN  /\ (\E i \in 1..Len(lookupLog) :
                     lookupLog[i].key = lookup.key /\ AnsweredLately(i))
                 => ~lookup.queried
              /\ ( /\ index # 0
                   /\ now - speedLimitCache[index].timestamp >= 120000 )
                 => lookup.queried ]_vars


\* --------------------------- specification: a stream without device speed
\* One fix a second with good accuracy and no device speed, each at another
\* of three places 10 m to 46 m apart; the accelerometer reports impacts;
\* one trip; the resolver answers 25 km/h.
NextStream ==
    \/ \E point \in {PointA, PointNear, PointB} :
          /\ ~TimerDue /\ HandlersIdle
          /\ position = NoPosition \/ position.timestamp = now - 1000
          /\ point.lat # position.latitude
          /\ DeliverFix(Fix(point, 10, Null, 0), MaxStreamFixes)
    \/ ~TimerDue /\ Accelerometer(<<0, 240, 320>>)
    \/ CrashTimeoutFires
    \/ ~TimerDue /\ OneTrip
    \/ \E p \in limitPending : SpeedLimitResult(p, 25)
    \/ /\ position # NoPosition /\ position.timestamp = now
       /\ Tick(1000) /\ now' <= MaxStreamClock

SpecStream == Init /\ [][NextStream]_vars

\* C40: in a stream of samples without device speed, 1 s apart and each at
\* least 5 m from the one before, every sample replaces the last accepted
\* position and has raw speed 0: no speed flag of a harsh event, no
\* sudden-stop signal and no speeding episode arises.
C40_StreamWithoutSpeed ==
    [][ /\ SampleStep
           => /\ lastLocation' =
                    [lat |-> position'.latitude, lng |-> position'.longitude,
                     time |-> position'.timestamp]
              /\ smoothedSpeed' = 0
              /\ tripId # NoTrip => (StepRawSpeed = 0 /\ ~StepDrop /\ ~StepRise)
        /\ \A i \in 1..Len(tripLocationBuffer') :
              tripLocationBuffer'[i].speed = 0
        /\ ~speedBasedCrash' /\ ~crashDetected'
        /\ harshAccelCount' = 0
        /\ ~wasSpeeding' /\ speedingViolations' = 0
        /\ speedingDuration' = 0 /\ maxSpeedOverLimit' = 0 ]_vars

\* Three samples of the stream are in the buffer of a trip, the impact flag
\* is set and a speed limit has been resolved.
C40_Witness ==
    /\ tripId # NoTrip /\ Len(tripLocationBuffer) = 3
    /\ tripLocationBuffer[3].time = tripLocationBuffer[1].time + 2000
    /\ tripLocationBuffer[3].lat # tripLocationBuffer[2].lat
    /\ lastLocation.time = tripLocationBuffer[3].time
    /\ sensorBasedCrash /\ currentSpeedLimit = 25

====
